---- MODULE Spec2Model ----
(***************************************************************************)
(* Verification model of the note-to-study-material application:           *)
(*   - the processNotes Cloud Function (functions/src/index.ts) with its   *)
(*     storage, OCR, diagram and generation collaborators,                 *)
(*   - the client call wrapper (processNotes in functionsService),         *)
(*   - the Firestore save-with-dedup transactions (submissionHandler.ts),  *)
(*   - the read-then-update mutations of the review and editing screens.   *)
(*                                                                         *)
(* Strings are sequences of one-character strings.  A base64 payload is    *)
(* too long for that (the size cap sits at 33554432 characters), so it is  *)
(* kept run-length encoded: lead/trail whitespace counts, the length of    *)
(* the core between them and whether the core holds a character outside    *)
(* [A-Za-z0-9+/=].                                                         *)
(***************************************************************************)
EXTENDS Integers, Sequences, FiniteSets, TLC

(***************************************************************************)
(* Bounds of the model                                                     *)
(***************************************************************************)
\* longest file list of a request
MaxFiles == 2
\* how often the wall clock advances while the saves run
MaxTicks == 2
MaxPages == 46
MaxAnswerLen == 4
MaxSelected == 3
MaxQuestions == 4
MaxResults == 3

(***************************************************************************)
(* Program constants                                                       *)
(***************************************************************************)
\* 24 * 1024 * 1024, the cap on the estimated decoded size of one file
MaxFileBytes == 25165824
\* word count below which an image is routed to diagram understanding
DiagramWordLimit == 50
\* two saves whose creation times are closer than this are one submission
DuplicateWindowMs == 5000
MaxPagesPerChunk == 15
ChunkThreshold == 15
InvalidArgumentCode == 3
\* fuzzyMatch: the distance always allowed, and the share of the longer
\* length allowed beyond it (one tenth)
MinAllowedDistance == 2
AllowedDistanceDivisor == 10
\* updateCardConfidence: the lowest and the highest confidence level
MinConfidence == 0
MaxConfidence == 5
\* the significant binary digits of a double; the digits of a limb, and
\* the limbs of a quotient (more digits than a double holds)
MantissaBits == 53
LimbBits == 14
QuotientLimbCount == 5

(***************************************************************************)
(* Strings                                                                 *)
(***************************************************************************)
WhitespaceChars == {" ", "\n"}

\* positions of s that hold a non-whitespace character
Inked(s) == {k \in 1..Len(s) : s[k] \notin WhitespaceChars}

\* String.prototype.trim: what lies between the first and the last
\* non-whitespace character
Trim(s) ==
  IF Inked(s) = {} THEN <<>>
  ELSE SubSeq(s, CHOOSE k \in Inked(s) : \A j \in Inked(s) : k <= j,
                 CHOOSE k \in Inked(s) : \A j \in Inked(s) : k >= j)

\* extractedText.trim().split(/\s+/).filter(word => word.length > 0).length:
\* the pieces that survive the filter are the maximal runs of non-whitespace
\* characters, counted here by the positions where one starts
WordCount(s) ==
  LET t == Trim(s)
  IN  Cardinality({k \in Inked(t) : k = 1 \/ t[k - 1] \in WhitespaceChars})

\* Array.prototype.join
RECURSIVE Join(_, _)
Join(list, sep) ==
  IF list = <<>> THEN <<>>
  ELSE IF Len(list) = 1 THEN list[1]
  ELSE list[1] \o sep \o Join(Tail(list), sep)

\* n one-letter words separated by single spaces
Words(n, c) == [k \in 1..(IF n = 0 THEN 0 ELSE 2 * n - 1) |->
                  IF k % 2 = 1 THEN c ELSE " "]

BlankLine == <<"\n", "\n">>

(***************************************************************************)
(* Requests                                                                *)
(***************************************************************************)
\* run-length encoded base64 payload
B64(lead, core, bad, trail) ==
  [lead |-> lead, core |-> core, bad |-> bad, trail |-> trail]

B64Length(b) == b.lead + b.core + b.trail

\* file.base64.trim()
B64Trim(b) == B64(0, b.core, b.bad, 0)

\* /^[A-Za-z0-9+/=]+$/.test(...)
B64RegexTest(b) == b.lead = 0 /\ b.trail = 0 /\ b.core > 0 /\ ~b.bad

\* 4/3 of the byte cap: the longest base64 string that passes the size rule
CapChars == (MaxFileBytes * 4) \div 3

GoodB64 == B64(0, 4, FALSE, 0)

B64Inputs ==
  { B64(0, 0, FALSE, 0),            \* ""
    B64(1, 0, FALSE, 0),            \* " "
    GoodB64,                        \* "QUJD"
    B64(1, 4, FALSE, 1),            \* " QUJD\n"
    B64(0, 4, TRUE, 0),             \* "QU!D"
    B64(0, CapChars, FALSE, 0),     \* exactly at the cap
    B64(0, CapChars + 1, FALSE, 0), \* one character over the cap
    B64(1, CapChars, FALSE, 0) }    \* at the cap after trimming only

FileRec(name, type, b64) == [name |-> name, type |-> type, base64 |-> b64]

\* the two well-formed files, and every deviation of one field from them
FileInputs ==
  { FileRec("notes", t, GoodB64) : t \in {"pdf", "image", "doc", ""} }
  \cup { FileRec("", "pdf", GoodB64) }
  \cup { FileRec("notes", "pdf", b) : b \in B64Inputs }
  \cup { FileRec("notes", "image", B64(1, 4, FALSE, 1)) }

\* the files the pipeline runs are drawn from: well-formed ones, and two
\* ill-formed ones so that rejected requests occur next to accepted ones
PipelineFileInputs ==
  { FileRec("notes", "pdf", GoodB64), FileRec("notes", "image", GoodB64),
    FileRec("notes", "doc", GoodB64), FileRec("notes", "pdf", B64(0, 4, TRUE, 0)) }

SeqsUpTo(S, n) == UNION { [1..k -> S] : k \in 0..n }

RequestData(files, sel, num, qts) ==
  [files |-> files, selectionType |-> sel, numberOfItems |-> num,
   quizQuestionTypes |-> qts]

SelectionInputs == {"flashcard", "quiz", "essay", ""}
QuestionTypeInputs == {<<>>, <<"multiple-choice">>}

ValidationRequests ==
  { RequestData(f, s, n, q) : f \in SeqsUpTo(FileInputs, MaxFiles),
      s \in SelectionInputs, n \in {-1, 0, 1}, q \in QuestionTypeInputs }

PipelineRequests ==
  { RequestData(f, s, n, q) : f \in SeqsUpTo(PipelineFileInputs, MaxFiles),
      s \in {"flashcard", "quiz", "essay"}, n \in {0, 1},
      q \in QuestionTypeInputs }

(***************************************************************************)
(* Errors                                                                  *)
(***************************************************************************)
NoData == [absent |-> TRUE]
NoOutcome == [kind |-> "none", code |-> "", message |-> <<>>, data |-> NoData]
HttpsError(code, message) ==
  [kind |-> "error", code |-> code, message |-> message, data |-> NoData]
\* a thrown Error that is not an HttpsError
PlainError(message) ==
  [kind |-> "error", code |-> "plain", message |-> message, data |-> NoData]
Success(data) ==
  [kind |-> "success", code |-> "", message |-> <<>>, data |-> data]

(***************************************************************************)
(* processNotes: input validation                                          *)
(***************************************************************************)
\* a validator that tests the base64 pattern without trimming first
FileError_Untrimmed(file) ==
  IF file.name = "" \/ file.type = "" \/ B64Length(file.base64) = 0
  THEN <<"Each file must have name, type, and base64 data">>
  ELSE IF file.type \notin {"pdf", "image"}
  THEN <<"File type must be \"pdf\" or \"image\"">>
  ELSE IF ~B64RegexTest(file.base64)
  THEN <<"Invalid base64 data format">>
  ELSE IF B64Length(file.base64) * 3 > MaxFileBytes * 4
  THEN <<"File is too large. Maximum size is 24MB.", file.name>>
  ELSE <<>>

\* the per-file checks of the validation loop, first failure wins
FileError(file) ==
  IF file.name = "" \/ file.type = "" \/ B64Length(file.base64) = 0
  THEN <<"Each file must have name, type, and base64 data">>
  ELSE IF file.type \notin {"pdf", "image"}
  THEN <<"File type must be \"pdf\" or \"image\"">>
  ELSE IF ~B64RegexTest(B64Trim(file.base64))
  THEN <<"Invalid base64 data format">>
  ELSE IF B64Length(file.base64) * 3 > MaxFileBytes * 4
  THEN <<"File is too large. Maximum size is 24MB.", file.name>>
  ELSE <<>>

RECURSIVE FirstFileError(_)
FirstFileError(files) ==
  IF files = <<>> THEN <<>>
  ELSE IF FileError(Head(files)) # <<>> THEN FileError(Head(files))
  ELSE FirstFileError(Tail(files))

\* a validator that leaves the per-file rules out
ValidateRequest_NoFileRules(data) ==
  IF Len(data.files) = 0
  THEN <<"At least one file is required">>
  ELSE IF data.selectionType \notin {"flashcard", "quiz"}
  THEN <<"selectionType must be \"flashcard\" or \"quiz\"">>
  ELSE IF data.numberOfItems <= 0
  THEN <<"numberOfItems must be greater than 0">>
  ELSE IF data.selectionType = "quiz" /\ Len(data.quizQuestionTypes) = 0
  THEN <<"quizQuestionTypes is required for quiz type">>
  ELSE <<>>

\* the message of the first violated rule, <<>> when the request is valid
ValidateRequest(data) ==
  IF Len(data.files) = 0
  THEN <<"At least one file is required">>
  ELSE IF data.selectionType \notin {"flashcard", "quiz"}
  THEN <<"selectionType must be \"flashcard\" or \"quiz\"">>
  ELSE IF data.numberOfItems <= 0
  THEN <<"numberOfItems must be greater than 0">>
  ELSE IF data.selectionType = "quiz" /\ Len(data.quizQuestionTypes) = 0
  THEN <<"quizQuestionTypes is required for quiz type">>
  ELSE FirstFileError(data.files)

(***************************************************************************)
(* Collaborators' answers                                                  *)
(***************************************************************************)
OcrLetter(i) == <<"a", "b", "c", "d">>[i]
DiagramLetter(i) == <<"p", "q", "r", "s">>[i]

\* what the OCR service may extract from file i
OcrTexts(i) ==
  { <<>>, <<" ">>, Words(DiagramWordLimit - 1, OcrLetter(i)),
    Words(DiagramWordLimit, OcrLetter(i)) }

\* what the multimodal model may answer for image i
DiagramTexts(i) == { <<>>, <<"\n">>, Words(1, DiagramLetter(i)) }

\* a JSON value as far as the validators look at it: its kind, the
\* characters of a string, the entries of a list
JsonValue(kind, str, items) ==
  [kind |-> kind, s |-> str, isList |-> kind = "list", items |-> items]
Absent == JsonValue("absent", "", <<>>)
JsonNull == JsonValue("null", "", <<>>)
JsonNumber == JsonValue("number", "", <<>>)
Str(str) == JsonValue("string", str, <<>>)
ListOf(items) == JsonValue("list", "", items)
NotAList == Absent

\* an entry of cards; kind is "object" unless the entry is null
JsonCard(kind, question, answer) ==
  [kind |-> kind, question |-> question, answer |-> answer]

\* an entry of questionsList
JsonQuestion(kind, type, question, answer, options) ==
  [kind |-> kind, type |-> type, question |-> question, answer |-> answer,
   options |-> options]

\* the text of a response, token by token: fence marks, a language tag,
\* whitespace, and "{}" standing for the JSON document
Body == <<"{}">>
\* the three backquotes that open or close a Markdown code block
Fence == "fence"

\* a generative answer: its text, whether the document in it is well-formed
\* JSON, and the fields of the object it parses to
RawResponse(parses, title, tags, cards, questionsList) ==
  [text |-> Body, parses |-> parses, title |-> title, tags |-> tags,
   cards |-> cards, questionsList |-> questionsList]

SampleCard == JsonCard("object", Str("Q"), Str("A"))
SampleQuestion ==
  JsonQuestion("object", Str("fill-in-the-blank"), Str("Q"), Str("A"),
               ListOf(<<>>))

GenResponses ==
  { RawResponse(TRUE, Str("T"), ListOf(<<>>), ListOf(<<SampleCard>>),
                NotAList),
    RawResponse(TRUE, Str("T"), ListOf(<<>>), NotAList,
                ListOf(<<SampleQuestion>>)),
    RawResponse(TRUE, Str(""), ListOf(<<>>), ListOf(<<SampleCard>>),
                ListOf(<<SampleQuestion>>)),
    RawResponse(FALSE, Absent, NotAList, NotAList, NotAList) }

(***************************************************************************)
(* Response parser                                                         *)
(***************************************************************************)
ParseOk(value) == [ok |-> TRUE, value |-> value]
ParseFail == [ok |-> FALSE, value |-> NoData]

StartsWith(text, prefix) ==
  Len(text) >= Len(prefix) /\ SubSeq(text, 1, Len(prefix)) = prefix

DropFirst(text, n) == SubSeq(text, n + 1, Len(text))
DropLast(text, n) == SubSeq(text, 1, Len(text) - n)

\* replace(/^<prefix>\n?/, ''), for a text that starts with the prefix
StripLeading(text, prefix) ==
  LET rest == DropFirst(text, Len(prefix))
  IN  IF rest # <<>> /\ rest[1] = "\n" THEN DropFirst(rest, 1) ELSE rest

\* replace(/\n?<fence>$/, '')
StripTrailing(text) ==
  IF text # <<>> /\ text[Len(text)] = Fence
  THEN LET rest == DropLast(text, 1)
       IN  IF rest # <<>> /\ rest[Len(rest)] = "\n"
           THEN DropLast(rest, 1) ELSE rest
  ELSE text

\* the response without its Markdown code fence
StripFences(response) ==
  LET cleanedResponse == Trim(response)
  IN  IF StartsWith(cleanedResponse, <<Fence, "json">>)
      THEN StripTrailing(StripLeading(cleanedResponse, <<Fence, "json">>))
      ELSE IF StartsWith(cleanedResponse, <<Fence>>)
      THEN StripTrailing(StripLeading(cleanedResponse, <<Fence>>))
      ELSE cleanedResponse

\* JSON.parse succeeds on a well-formed document with nothing but
\* whitespace around it
JsonParses(cleanedResponse, r) ==
  r.parses /\ Trim(cleanedResponse) = Body

\* !x || typeof x !== 'string', negated
IsNonEmptyString(x) == x.kind = "string" /\ x.s # ""

\* the parsed object as it is returned
ParsedValue(r, tags) ==
  [title |-> r.title, tags |-> tags, cards |-> r.cards,
   questionsList |-> r.questionsList]

DefaultTags(r) == IF r.tags.isList THEN r.tags ELSE ListOf(<<>>)

\* a validator that does not look at a card's answer
CardOk_QuestionOnly(card) ==
  /\ card.kind = "object"
  /\ IsNonEmptyString(card.question)

CardOk(card) ==
  /\ card.kind = "object"
  /\ IsNonEmptyString(card.question)
  /\ IsNonEmptyString(card.answer)

\* a parser that accepts a response without a title
parseFlashcardResponse_NoTitle(r) ==
  IF ~JsonParses(StripFences(r.text), r) THEN ParseFail
  ELSE IF ~r.cards.isList THEN ParseFail
  ELSE IF \E k \in 1..Len(r.cards.items) : ~CardOk(r.cards.items[k])
  THEN ParseFail
  ELSE ParseOk(ParsedValue(r, DefaultTags(r)))

parseFlashcardResponse(r) ==
  IF ~JsonParses(StripFences(r.text), r) THEN ParseFail
  ELSE IF ~IsNonEmptyString(r.title) THEN ParseFail
  ELSE IF ~r.cards.isList THEN ParseFail
  ELSE IF \E k \in 1..Len(r.cards.items) : ~CardOk(r.cards.items[k])
  THEN ParseFail
  ELSE ParseOk(ParsedValue(r, DefaultTags(r)))

QuestionTypes == {"multiple-choice", "multiple-selection", "fill-in-the-blank"}

HasOptions(type) == type \in {"multiple-choice", "multiple-selection"}

\* a validator that lets a multiple-selection question keep a single answer
QuestionOk_SingleAnswer(q) ==
  /\ q.kind = "object"
  /\ q.type.kind = "string" /\ q.type.s \in QuestionTypes
  /\ IsNonEmptyString(q.question)
  /\ q.answer.kind \notin {"absent", "null"}
  /\ HasOptions(q.type.s) => q.options.isList /\ Len(q.options.items) >= 2

QuestionOk(q) ==
  /\ q.kind = "object"
  /\ q.type.kind = "string" /\ q.type.s \in QuestionTypes
  /\ IsNonEmptyString(q.question)
  /\ q.answer.kind \notin {"absent", "null"}
  /\ HasOptions(q.type.s) => q.options.isList /\ Len(q.options.items) >= 2
  /\ q.type.s = "multiple-selection" => q.answer.isList

parseQuizResponse(r) ==
  IF ~JsonParses(StripFences(r.text), r) THEN ParseFail
  ELSE IF ~IsNonEmptyString(r.title) THEN ParseFail
  ELSE IF ~r.questionsList.isList THEN ParseFail
  ELSE IF \E k \in 1..Len(r.questionsList.items) :
            ~QuestionOk(r.questionsList.items[k])
  THEN ParseFail
  ELSE ParseOk(ParsedValue(r, DefaultTags(r)))

\* generateFlashcards / generateQuiz: one model call, then the parser; any
\* failure is rethrown as a plain Error
generateFlashcards(threw, r) ==
  IF threw THEN ParseFail ELSE parseFlashcardResponse(r)

generateQuiz(threw, r) ==
  IF threw THEN ParseFail ELSE parseQuizResponse(r)

(***************************************************************************)
(* State                                                                   *)
(***************************************************************************)
VARIABLES
  request,          \* auth, data and the deployment's processor setting
  pc,               \* stage of the processNotes invocation
  idx,              \* loop index of the current stage
  inflight,         \* awaited external calls that have not returned
  callLog,          \* every external call made so far, in order
  lastResp,         \* the latest answer of a collaborator
  uploadedFileUrls, downloadedFiles, extractedFiles, allTexts, combinedText,
  result,           \* locals of processNotes
  storage,          \* uploaded artifacts present in the bucket
  tempFiles,        \* downloaded files present in the temp directory
  contribution,     \* per processed file, the text it added to allTexts
  fatal,            \* some collaborator answer so far was a fatal failure
  outcome,          \* what the callable returned or threw
  userDoc,          \* the user's Firestore document
  docVersion,       \* its update count, which transactions compare
  clock,            \* wall clock in milliseconds
  ticks,            \* number of clock advances so far
  initialDoc,       \* the document before any client acted
  clients,          \* per client: task, position, snapshot, result
  eval,             \* a function under evaluation: name, arguments, result
  extract,          \* locals and surroundings of one extractTextFromFile call
  study,            \* one flashcard set and, per client, its screens' state
  taking,           \* one quiz and, per client, its screens' state
  create            \* the create screen: guard, calls in flight, navigation

pipeVars ==
  <<request, pc, idx, inflight, callLog, lastResp, uploadedFileUrls,
    downloadedFiles, extractedFiles, allTexts, combinedText, result, storage,
    tempFiles, contribution, fatal, outcome>>

storeVars == <<userDoc, docVersion, clock, ticks, initialDoc, clients>>

screenVars == <<study, taking, create>>

unitVars == <<eval, extract, screenVars>>

vars == <<pipeVars, storeVars, unitVars>>

\* an external call: the operation, the file it is about (0 for none) and,
\* for generation, the text handed over
Call(op, file) == [op |-> op, file |-> file, arg |-> <<>>]
GenCall(text) == [op |-> "generate", file |-> 0, arg |-> text]
Resp(op, file, threw, text) ==
  [op |-> op, file |-> file, threw |-> threw, text |-> text]
NoResp == Resp("none", 0, FALSE, <<>>)

(***************************************************************************)
(* The user document and its clients                                       *)
(***************************************************************************)
Clients == {1, 2}

NoEntity == [absent |-> TRUE]
NoDoc == [exists |-> FALSE, flashcards |-> <<>>, quizzes |-> <<>>]
DocOf(flashcards, quizzes) ==
  [exists |-> TRUE, flashcards |-> flashcards, quizzes |-> quizzes]

\* transformFlashcardData / transformQuizData applied to n generated items
Card(text) ==
  [question |-> text, answer |-> "A", status |-> "review",
   confidenceLevel |-> 0]
Question(text) ==
  [type |-> "fill-in-the-blank", question |-> text, answer |-> "A",
   options |-> <<>>, currentAnswer |-> ""]

FlashcardData(title, n) ==
  [title |-> title, tags |-> <<>>, cards |-> [k \in 1..n |-> Card("Q")]]
QuizData(title, n) ==
  [title |-> title, isComplete |-> FALSE, score |-> 0, tags |-> <<>>,
   questionsList |-> [k \in 1..n |-> Question("Q")]]

\* the entity a save builds inside its transaction
NewFlashcard(data, now) ==
  [title |-> data.title, tags |-> data.tags, cards |-> data.cards,
   creationDate |-> now, lastReviewed |-> now]
NewQuiz(data, now) ==
  [title |-> data.title, isComplete |-> data.isComplete,
   score |-> data.score, tags |-> data.tags,
   questionsList |-> data.questionsList, creationDate |-> now,
   lastAccessed |-> now, lastQuestionIndex |-> 0,
   bookmarkedQuestions |-> <<>>]

\* what a client is asked to do
SaveTask(op, title, n) ==
  [op |-> op, title |-> title, count |-> n, index |-> 0, text |-> ""]
AddCardTask(index, text) ==
  [op |-> "addCard", title |-> "", count |-> 0, index |-> index,
   text |-> text]
AnswerTask(question, text) ==
  [op |-> "saveAnswer", title |-> "", count |-> 0, index |-> question,
   text |-> text]
NoTask == [op |-> "none", title |-> "", count |-> 0, index |-> 0, text |-> ""]

SaveTasks ==
  { SaveTask("saveQuiz", "T", 1), SaveTask("saveQuiz", "T", 2),
    SaveTask("saveQuiz", "U", 1), SaveTask("saveFlashcard", "T", 1),
    SaveTask("saveFlashcard", "T", 2) }

Abs(n) == IF n < 0 THEN -n ELSE n

ClientState(task, at, snap, ver, now, pending, saved, local) ==
  [task |-> task, pc |-> at, snap |-> snap, ver |-> ver, now |-> now,
   pending |-> pending, saved |-> saved, local |-> local]

IdleClient(task, local) ==
  ClientState(task, "idle", NoDoc, 0, 0, NoDoc, NoEntity, local)

InitStoreIdle ==
  /\ userDoc = NoDoc
  /\ docVersion = 0
  /\ clock = 0
  /\ ticks = 0
  /\ initialDoc = NoDoc
  /\ clients = [c \in Clients |-> IdleClient(NoTask, NoEntity)]

\* nothing under evaluation, no extraction running
NoEval == [fn |-> "none", arg |-> [none |-> TRUE], out |-> <<>>, done |-> FALSE]
NoExtract == [pc |-> "none"]
NoStudy == [pc |-> "none"]
NoTaking == [pc |-> "none"]
NoCreate == [pc |-> "none"]

InitScreensIdle ==
  /\ study = NoStudy
  /\ taking = NoTaking
  /\ create = NoCreate

InitUnitIdle ==
  /\ eval = NoEval
  /\ extract = NoExtract
  /\ InitScreensIdle

InitPipelineLocals ==
  /\ pc = "entry"
  /\ idx = 0
  /\ inflight = {}
  /\ callLog = <<>>
  /\ lastResp = NoResp
  /\ uploadedFileUrls = <<>>
  /\ downloadedFiles = <<>>
  /\ extractedFiles = <<>>
  /\ allTexts = <<>>
  /\ combinedText = <<>>
  /\ result = NoData
  /\ storage = {}
  /\ tempFiles = {}
  /\ contribution = <<>>
  /\ fatal = FALSE
  /\ outcome = NoOutcome

InitValidate ==
  /\ request \in [auth : BOOLEAN, data : ValidationRequests,
                  processorId : BOOLEAN]
  /\ InitPipelineLocals
  /\ InitStoreIdle
  /\ InitUnitIdle

InitPipeline ==
  /\ request \in [auth : BOOLEAN, data : PipelineRequests,
                  processorId : BOOLEAN]
  /\ InitPipelineLocals
  /\ InitStoreIdle
  /\ InitUnitIdle

(***************************************************************************)
(* processNotes                                                            *)
(***************************************************************************)
files == request.data.files

\* the catch-all at the end of processNotes
CatchAll(err) ==
  IF err.code # "plain" THEN err
  ELSE HttpsError("internal", <<"Failed to process notes: ">> \o err.message)

Throw(err) ==
  /\ outcome' = CatchAll(err)
  /\ pc' = "done"

\* authentication, validation and the processor-id check: everything up to
\* the first await
EntryOutcome(req) ==
  IF ~req.auth
  THEN HttpsError("unauthenticated", <<"User must be authenticated">>)
  ELSE IF ValidateRequest(req.data) # <<>>
  THEN CatchAll(HttpsError("invalid-argument", ValidateRequest(req.data)))
  ELSE IF (\E k \in 1..Len(req.data.files) : req.data.files[k].type = "pdf")
          /\ ~req.processorId
  THEN CatchAll(HttpsError("failed-precondition",
                           <<"Document AI processor ID not configured.">>))
  ELSE NoOutcome

Entry ==
  /\ pc = "entry"
  /\ IF EntryOutcome(request) = NoOutcome
     THEN /\ pc' = "upload"
          /\ idx' = 1
          /\ UNCHANGED outcome
     ELSE /\ pc' = "done"
          /\ outcome' = EntryOutcome(request)
          /\ UNCHANGED idx
  /\ UNCHANGED <<request, inflight, callLog, lastResp, uploadedFileUrls,
                 downloadedFiles, extractedFiles, allTexts, combinedText,
                 result, storage, tempFiles, contribution, fatal, storeVars, unitVars>>

\* everything of the invocation's state that a step may leave alone
Locals ==
  <<uploadedFileUrls, downloadedFiles, extractedFiles, allTexts, combinedText,
    result, contribution, storeVars, unitVars>>

\* a caller that starts the call for every file at once
IssueCall_AllAtOnce(c) ==
  /\ inflight = {}
  /\ inflight' = {[c EXCEPT !.file = k] : k \in 1..Len(files)}
  /\ callLog' = Append(callLog, c)

IssueCall(c) ==
  /\ inflight = {}
  /\ inflight' = {c}
  /\ callLog' = Append(callLog, c)

\* ---- Step 1: upload every file, one after the other --------------------
UploadCall ==
  /\ pc = "upload"
  /\ IssueCall(Call("upload", idx))
  /\ UNCHANGED <<request, pc, idx, lastResp, Locals, storage, tempFiles,
                 fatal, outcome>>

UploadReturn ==
  /\ pc = "upload"
  /\ inflight = {Call("upload", idx)}
  /\ inflight' = {}
  /\ \E threw \in BOOLEAN :
       /\ lastResp' = Resp("upload", idx, threw, <<>>)
       /\ fatal' = (fatal \/ threw)
       /\ IF threw
          THEN /\ Throw(HttpsError("internal",
                                   <<"Failed to upload file ", files[idx].name>>))
               /\ UNCHANGED <<idx, uploadedFileUrls, storage>>
          ELSE /\ uploadedFileUrls' = Append(uploadedFileUrls, idx)
               /\ storage' = storage \cup {idx}
               /\ IF idx < Len(files)
                  THEN idx' = idx + 1 /\ pc' = "upload"
                  ELSE idx' = 1 /\ pc' = "download"
               /\ UNCHANGED outcome
  /\ UNCHANGED <<request, callLog, downloadedFiles, extractedFiles, allTexts,
                 combinedText, result, tempFiles, contribution, storeVars, unitVars>>

\* ---- Step 2: download every uploaded file -------------------------------
\* the content type the upload stored, which the download reads back
MimeTypeOf(file) ==
  IF file.type = "pdf" THEN "application/pdf" ELSE "image/jpeg"

ImageTypes ==
  {"image/jpeg", "image/jpg", "image/png", "image/webp", "image/gif"}

DownloadCall ==
  /\ pc = "download"
  /\ IssueCall(Call("download", idx))
  /\ UNCHANGED <<request, pc, idx, lastResp, Locals, storage, tempFiles,
                 fatal, outcome>>

DownloadReturn ==
  /\ pc = "download"
  /\ inflight = {Call("download", idx)}
  /\ inflight' = {}
  /\ \E threw \in BOOLEAN :
       /\ lastResp' = Resp("download", idx, threw, <<>>)
       /\ fatal' = (fatal \/ threw)
       /\ IF threw
          THEN /\ Throw(HttpsError("internal", <<"Failed to download file: ">>))
               /\ UNCHANGED <<idx, downloadedFiles, tempFiles>>
          ELSE /\ downloadedFiles' =
                    Append(downloadedFiles,
                           [filePath |-> uploadedFileUrls[idx],
                            mimeType |-> MimeTypeOf(files[uploadedFileUrls[idx]]),
                            storageUrl |-> uploadedFileUrls[idx]])
               /\ tempFiles' = tempFiles \cup {uploadedFileUrls[idx]}
               /\ IF idx < Len(uploadedFileUrls)
                  THEN idx' = idx + 1 /\ pc' = "download"
                  ELSE idx' = 1 /\ pc' = "extract"
               /\ UNCHANGED outcome
  /\ UNCHANGED <<request, callLog, uploadedFileUrls, extractedFiles, allTexts,
                 combinedText, result, storage, contribution, storeVars, unitVars>>

\* ---- Step 3: OCR every downloaded file ----------------------------------
IsBlank(text) == Trim(text) = <<>>

\* an extraction step that lets a blank PDF through
ExtractedText_BlankPdfPasses(mimeType, threw, text) ==
  LET isImage == mimeType \in ImageTypes
      isPdf == mimeType = "application/pdf"
      innerFails == threw
  IN  IF innerFails /\ isPdf
      THEN [fatal |-> ~isImage, textContent |-> <<>>]
      ELSE IF innerFails
      THEN [fatal |-> FALSE, textContent |-> <<>>]
      ELSE [fatal |-> FALSE, textContent |-> text]

\* the text kept for a file after its OCR call, or "fatal"
\* (threw: the call failed; text: what it returned otherwise)
ExtractedText(mimeType, threw, text) ==
  LET isImage == mimeType \in ImageTypes
      isPdf == mimeType = "application/pdf"
      innerFails == threw \/ (IsBlank(text) /\ isPdf)
  IN  IF innerFails /\ isPdf
      THEN [fatal |-> ~isImage, textContent |-> <<>>]
      ELSE IF innerFails
      THEN [fatal |-> FALSE, textContent |-> <<>>]
      ELSE [fatal |-> FALSE, textContent |-> text]

ExtractCall ==
  /\ pc = "extract"
  /\ IssueCall(Call("ocr", idx))
  /\ UNCHANGED <<request, pc, idx, lastResp, Locals, storage, tempFiles,
                 fatal, outcome>>

ExtractReturn ==
  /\ pc = "extract"
  /\ inflight = {Call("ocr", idx)}
  /\ inflight' = {}
  /\ \E threw \in BOOLEAN, text \in OcrTexts(idx) :
       LET file == downloadedFiles[idx]
           ex == ExtractedText(file.mimeType, threw, text)
       IN  /\ threw => text = <<>>
           /\ lastResp' = Resp("ocr", idx, threw, text)
           /\ fatal' = (fatal \/ (file.mimeType = "application/pdf"
                                   /\ (threw \/ IsBlank(text))))
           /\ IF ex.fatal
              THEN /\ Throw(HttpsError("internal",
                        <<"Failed to extract text from PDF file ">>))
                   /\ UNCHANGED <<idx, extractedFiles>>
              ELSE /\ extractedFiles' =
                        Append(extractedFiles,
                               [fileType |-> file.mimeType,
                                textContent |-> ex.textContent])
                   /\ IF idx < Len(downloadedFiles)
                      THEN idx' = idx + 1 /\ pc' = "extract"
                      ELSE idx' = 1 /\ pc' = "process"
                   /\ UNCHANGED outcome
  /\ UNCHANGED <<request, callLog, uploadedFileUrls, downloadedFiles, allTexts,
                 combinedText, result, storage, tempFiles, contribution, storeVars, unitVars>>

\* ---- Step 4: per file, extracted text or diagram understanding ----------
shouldUseDiagramUnderstanding(fileType, extractedText) ==
  IF fileType \in ImageTypes
  THEN WordCount(extractedText) < DiagramWordLimit
  ELSE FALSE

\* allTexts.push
Push(list, text) == Append(list, text)

None == [has |-> FALSE, text |-> <<>>]
Some(text) == [has |-> TRUE, text |-> text]

\* what a file adds when its own extracted text is all there is
OwnText(file) ==
  IF ~IsBlank(file.textContent) THEN Some(file.textContent) ELSE None

\* a fallback that takes any non-empty description, blank or not
DiagramContribution_Untrimmed(file, threw, description) ==
  IF ~threw /\ description # <<>> THEN Some(description) ELSE OwnText(file)

\* what an image adds after its understandDiagram call
DiagramContribution(file, threw, description) ==
  IF ~threw /\ ~IsBlank(description) THEN Some(description) ELSE OwnText(file)

Contribute(c) ==
  /\ allTexts' = IF c.has THEN Push(allTexts, c.text) ELSE allTexts
  /\ contribution' = Append(contribution, c)
  /\ idx' = idx + 1

\* a file that needs no further call: a PDF, or an image with enough text
ProcessFile ==
  /\ pc = "process"
  /\ inflight = {}
  /\ idx <= Len(extractedFiles)
  /\ LET file == extractedFiles[idx]
     IN  /\ ~shouldUseDiagramUnderstanding(file.fileType, file.textContent)
         /\ IF file.fileType = "application/pdf" /\ ~OwnText(file).has
            THEN /\ Throw(HttpsError("internal",
                      <<"No text could be extracted from PDF file ">>))
                 /\ UNCHANGED <<allTexts, contribution, idx>>
            ELSE /\ Contribute(OwnText(file))
                 /\ UNCHANGED <<pc, outcome>>
  /\ UNCHANGED <<request, inflight, callLog, lastResp, uploadedFileUrls,
                 downloadedFiles, extractedFiles, combinedText, result,
                 storage, tempFiles, fatal, storeVars, unitVars>>

DiagramCall ==
  /\ pc = "process"
  /\ idx <= Len(extractedFiles)
  /\ shouldUseDiagramUnderstanding(extractedFiles[idx].fileType,
                                   extractedFiles[idx].textContent)
  /\ IssueCall(Call("diagram", idx))
  /\ UNCHANGED <<request, pc, idx, lastResp, Locals, storage, tempFiles,
                 fatal, outcome>>

DiagramReturn ==
  /\ pc = "process"
  /\ inflight = {Call("diagram", idx)}
  /\ inflight' = {}
  /\ \E threw \in BOOLEAN, description \in DiagramTexts(idx) :
       /\ threw => description = <<>>
       /\ lastResp' = Resp("diagram", idx, threw, description)
       /\ Contribute(DiagramContribution(extractedFiles[idx], threw,
                                         description))
  /\ UNCHANGED <<request, pc, callLog, uploadedFileUrls, downloadedFiles,
                 extractedFiles, combinedText, result, storage, tempFiles,
                 fatal, outcome, storeVars, unitVars>>

\* a combination step that joins with a single line break
CombineTexts_SingleNewline(texts) == Join(texts, <<"\n">>)

\* ---- Combine all text ---------------------------------------------------
CombineTexts(texts) == Join(texts, BlankLine)

Combine ==
  /\ pc = "process"
  /\ inflight = {}
  /\ idx = Len(extractedFiles) + 1
  /\ combinedText' = CombineTexts(allTexts)
  /\ IF IsBlank(CombineTexts(allTexts))
     THEN /\ Throw(HttpsError("invalid-argument",
               <<"No text could be extracted from the provided files">>))
          /\ fatal' = TRUE
     ELSE /\ pc' = "generate"
          /\ UNCHANGED <<outcome, fatal>>
  /\ UNCHANGED <<request, idx, inflight, callLog, lastResp, uploadedFileUrls,
                 downloadedFiles, extractedFiles, allTexts, result, storage,
                 tempFiles, contribution, storeVars, unitVars>>

\* ---- Step 5: generate flashcards or a quiz ------------------------------
GenerateCall ==
  /\ pc = "generate"
  /\ IssueCall(GenCall(combinedText))
  /\ UNCHANGED <<request, pc, idx, lastResp, Locals, storage, tempFiles,
                 fatal, outcome>>

Generated(selectionType, threw, raw) ==
  IF selectionType = "flashcard"
  THEN generateFlashcards(threw, raw)
  ELSE generateQuiz(threw, raw)

GenerateReturn ==
  /\ pc = "generate"
  /\ inflight # {}
  /\ inflight' = {}
  /\ \E threw \in BOOLEAN, raw \in GenResponses :
       LET gen == Generated(request.data.selectionType, threw, raw)
       IN  /\ threw => ~raw.parses
           /\ lastResp' = Resp("generate", 0, threw, <<>>)
           /\ fatal' = (fatal \/ threw)
           /\ IF gen.ok
              THEN /\ result' = gen.value
                   /\ pc' = "cleanup"
                   /\ idx' = 1
                   /\ UNCHANGED outcome
              ELSE /\ Throw(PlainError(<<"Failed to generate">>))
                   /\ UNCHANGED <<result, idx>>
  /\ UNCHANGED <<request, callLog, uploadedFileUrls, downloadedFiles,
                 extractedFiles, allTexts, combinedText, storage, tempFiles,
                 contribution, storeVars, unitVars>>

\* ---- Clean up downloaded files and delete from Storage ------------------
\* cleanupTempFile runs to its end before deleteFileFromStorage is awaited;
\* neither lets an error escape
CleanupCall ==
  /\ pc = "cleanup"
  /\ idx <= Len(downloadedFiles)
  /\ inflight = {}
  /\ inflight' = {Call("delete", downloadedFiles[idx].storageUrl)}
  /\ callLog' = callLog \o <<Call("unlink", downloadedFiles[idx].filePath),
                             Call("delete", downloadedFiles[idx].storageUrl)>>
  /\ \E unlinked \in BOOLEAN :
       tempFiles' = IF unlinked
                    THEN tempFiles \ {downloadedFiles[idx].filePath}
                    ELSE tempFiles
  /\ UNCHANGED <<request, pc, idx, lastResp, Locals, storage, fatal, outcome>>

\* a cleanup loop that lets a failed deletion escape
CleanupReturn_Escalates ==
  /\ pc = "cleanup"
  /\ inflight = {Call("delete", downloadedFiles[idx].storageUrl)}
  /\ inflight' = {}
  /\ \E threw \in BOOLEAN :
       /\ lastResp' = Resp("delete", idx, threw, <<>>)
       /\ storage' = IF threw THEN storage
                     ELSE storage \ {downloadedFiles[idx].storageUrl}
       /\ IF threw
          THEN /\ Throw(PlainError(<<"delete failed">>))
               /\ UNCHANGED idx
          ELSE IF idx < Len(downloadedFiles)
          THEN /\ idx' = idx + 1
               /\ UNCHANGED <<pc, outcome>>
          ELSE /\ outcome' = Success(result)
               /\ pc' = "done"
               /\ UNCHANGED idx
  /\ UNCHANGED <<request, callLog, Locals, tempFiles, fatal>>

CleanupReturn ==
  /\ pc = "cleanup"
  /\ inflight = {Call("delete", downloadedFiles[idx].storageUrl)}
  /\ inflight' = {}
  /\ \E threw \in BOOLEAN :
       /\ lastResp' = Resp("delete", idx, threw, <<>>)
       /\ storage' = IF threw THEN storage
                     ELSE storage \ {downloadedFiles[idx].storageUrl}
  /\ IF idx < Len(downloadedFiles)
     THEN /\ idx' = idx + 1
          /\ UNCHANGED <<pc, outcome>>
     ELSE /\ outcome' = Success(result)
          /\ pc' = "done"
          /\ UNCHANGED idx
  /\ UNCHANGED <<request, callLog, Locals, tempFiles, fatal>>

NextPipeline ==
  \/ Entry
  \/ UploadCall \/ UploadReturn
  \/ DownloadCall \/ DownloadReturn
  \/ ExtractCall \/ ExtractReturn
  \/ ProcessFile \/ DiagramCall \/ DiagramReturn \/ Combine
  \/ GenerateCall \/ GenerateReturn
  \/ CleanupCall \/ CleanupReturn

SpecPipeline == InitPipeline /\ [][NextPipeline]_vars

(***************************************************************************)
(* saveQuizToFirestore / saveFlashcardToFirestore                          *)
(***************************************************************************)
\* history.quizzes or history.flashcards of a snapshot
ListOfKind(op, doc) ==
  IF op = "saveQuiz" THEN doc.quizzes ELSE doc.flashcards

ItemCount(op, entity) ==
  IF op = "saveQuiz" THEN Len(entity.questionsList) ELSE Len(entity.cards)

TimeDiff(existing, new) == Abs(existing.creationDate - new.creationDate)

\* the predicate handed to existing.some(...)
IsDuplicateOf(op, existing, new) ==
  IF existing.title # new.title THEN FALSE
  ELSE TimeDiff(existing, new) < DuplicateWindowMs
         /\ ItemCount(op, existing) = ItemCount(op, new)

\* the predicate handed to existing.find(...)
FindMatches(existing, new) ==
  IF existing.title # new.title THEN FALSE
  ELSE TimeDiff(existing, new) < DuplicateWindowMs

\* existing.find(...): the first match, NoEntity for undefined
FindDuplicate(existing, new) ==
  IF \E k \in 1..Len(existing) : FindMatches(existing[k], new)
  THEN existing[CHOOSE k \in 1..Len(existing) :
                  /\ FindMatches(existing[k], new)
                  /\ \A j \in 1..(k - 1) : ~FindMatches(existing[j], new)]
  ELSE NoEntity

WithList(op, doc, list) ==
  IF op = "saveQuiz" THEN [doc EXCEPT !.quizzes = list]
  ELSE [doc EXCEPT !.flashcards = list]

\* the body of the transaction function after transaction.get: the write
\* it queues (NoDoc for none) and the entity it remembers
TransactionBody(op, snap, entity) ==
  IF ~snap.exists
  THEN [pending |-> WithList(op, DocOf(<<>>, <<>>), <<entity>>),
        saved |-> entity]
  ELSE LET existing == ListOfKind(op, snap)
           isDuplicate ==
             \E k \in 1..Len(existing) : IsDuplicateOf(op, existing[k], entity)
           duplicate == FindDuplicate(existing, entity)
       IN  IF ~isDuplicate
           THEN [pending |-> WithList(op, snap, Append(existing, entity)),
                 saved |-> entity]
           ELSE [pending |-> NoDoc,
                 saved |-> IF duplicate # NoEntity THEN duplicate ELSE entity]

EntityFor(task, now) ==
  IF task.op = "saveQuiz"
  THEN NewQuiz(QuizData(task.title, task.count), now)
  ELSE NewFlashcard(FlashcardData(task.title, task.count), now)

IsSave(c) == clients[c].task.op \in {"saveQuiz", "saveFlashcard"}

StoreStep(c, next) ==
  /\ clients' = [clients EXCEPT ![c] = next]
  /\ UNCHANGED <<pipeVars, clock, ticks, initialDoc, unitVars>>

\* runTransaction starts (or restarts) the transaction function:
\* transaction.get, then everything up to the commit
TxGet(c) ==
  /\ IsSave(c)
  /\ clients[c].pc \in {"idle", "retry"}
  /\ LET me == clients[c]
         body == TransactionBody(me.task.op, userDoc,
                                 EntityFor(me.task, clock))
     IN  StoreStep(c, [me EXCEPT !.pc = "commit", !.snap = userDoc,
                                 !.ver = docVersion, !.now = clock,
                                 !.pending = body.pending,
                                 !.saved = body.saved])
  /\ UNCHANGED <<userDoc, docVersion>>

\* the commit: it goes through only if the document is as it was read;
\* otherwise the transaction function is run again
TxCommit(c) ==
  /\ IsSave(c)
  /\ clients[c].pc = "commit"
  /\ LET me == clients[c]
     IN  IF me.ver # docVersion
         THEN /\ StoreStep(c, [me EXCEPT !.pc = "retry"])
              /\ UNCHANGED <<userDoc, docVersion>>
         ELSE /\ StoreStep(c, [me EXCEPT !.pc = "done"])
              /\ IF me.pending # NoDoc
                 THEN userDoc' = me.pending /\ docVersion' = docVersion + 1
                 ELSE UNCHANGED <<userDoc, docVersion>>

\* the transaction gives up (network, permissions): the save throws
TxFail(c) ==
  /\ IsSave(c)
  /\ clients[c].pc = "commit"
  /\ StoreStep(c, [clients[c] EXCEPT !.pc = "failed", !.saved = NoEntity])
  /\ UNCHANGED <<userDoc, docVersion>>

\* time passes
TickSteps == {1, DuplicateWindowMs - 1}

Tick ==
  /\ ticks < MaxTicks
  /\ \E c \in Clients : clients[c].pc \notin {"done", "failed"}
  /\ \E d \in TickSteps : clock' = clock + d
  /\ ticks' = ticks + 1
  /\ UNCHANGED <<pipeVars, userDoc, docVersion, initialDoc, clients, unitVars>>

\* an earlier study set, created at time 0
EarlierSets ==
  { DocOf(<<>>, <<NewQuiz(QuizData("T", 2), 0)>>),
    DocOf(<<NewFlashcard(FlashcardData("T", 2), 0)>>, <<>>) }

InitSave ==
  /\ request = [auth |-> FALSE, data |-> RequestData(<<>>, "", 0, <<>>),
                processorId |-> FALSE]
  /\ InitPipelineLocals
  /\ InitUnitIdle
  /\ userDoc \in {NoDoc, DocOf(<<>>, <<>>)} \cup EarlierSets
  /\ initialDoc = userDoc
  /\ docVersion = 0
  /\ clock = 0
  /\ ticks = 0
  /\ clients \in [Clients -> {IdleClient(t, NoEntity) : t \in SaveTasks}]

NextSave ==
  \/ \E c \in Clients : TxGet(c)
  \/ \E c \in Clients : TxCommit(c)
  \/ \E c \in Clients : TxFail(c)
  \/ Tick

SpecSave == InitSave /\ [][NextSave]_vars

(***************************************************************************)
(* Screen handlers that rewrite a history array: getDoc, then updateDoc    *)
(***************************************************************************)
CardText(c) == IF c = 1 THEN "X" ELSE "Y"

MutateTasks(c) ==
  { AddCardTask(1, CardText(c)), AnswerTask(c, "ans"),
    SaveTask("saveFlashcard", "U", 1) }

IsRewrite(c) == clients[c].task.op \in {"addCard", "saveAnswer"}

\* handleAnswerChange: the screen's quiz with the current question answered
UpdatedQuiz(quiz, currentQuestionIndex, newAnswer) ==
  [quiz EXCEPT !.questionsList[currentQuestionIndex].currentAnswer = newAnswer]

SetAt(list, k, value) ==
  [j \in 1..(IF k > Len(list) THEN k ELSE Len(list)) |->
     IF j = k THEN value ELSE list[j]]

\* the array handleAddCard hands to updateDoc
AddCardArray(flashcards, flashcardIndex, text) ==
  LET set == flashcards[flashcardIndex]
      updatedFlashcard == [set EXCEPT !.cards = Append(set.cards, Card(text))]
  IN  SetAt(flashcards, flashcardIndex, updatedFlashcard)

\* the array saveAnswerToFirestore hands to updateDoc
SaveAnswerArray(quizzes, quizIndex, updatedQuiz, currentQuestionIndex, now) ==
  LET quizToSave == [updatedQuiz EXCEPT
                       !.lastQuestionIndex = currentQuestionIndex,
                       !.lastAccessed = now]
  IN  SetAt(quizzes, quizIndex, quizToSave)

\* the handler starts and its getDoc resolves
GetDoc(c) ==
  /\ IsRewrite(c)
  /\ clients[c].pc = "idle"
  /\ LET me == clients[c]
         local == IF me.task.op = "saveAnswer"
                  THEN UpdatedQuiz(me.local, me.task.index, me.task.text)
                  ELSE me.local
     IN  StoreStep(c, [me EXCEPT
                         !.pc = IF userDoc.exists THEN "update" ELSE "done",
                         !.snap = userDoc, !.ver = docVersion,
                         !.local = local])
  /\ UNCHANGED <<userDoc, docVersion>>

\* updateDoc replaces the whole array with the one built from the snapshot
UpdateDoc(c) ==
  /\ IsRewrite(c)
  /\ clients[c].pc = "update"
  /\ LET me == clients[c]
     IN  /\ userDoc' =
              IF me.task.op = "addCard"
              THEN [userDoc EXCEPT !.flashcards =
                      AddCardArray(me.snap.flashcards, 1, me.task.text)]
              ELSE [userDoc EXCEPT !.quizzes =
                      SaveAnswerArray(me.snap.quizzes, 1, me.local,
                                      me.task.index, clock)]
         /\ StoreStep(c, [me EXCEPT !.pc = "done", !.now = clock])
  /\ docVersion' = docVersion + 1

\* updateDoc rejects: the handler alerts and nothing is written
UpdateFail(c) ==
  /\ IsRewrite(c)
  /\ clients[c].pc = "update"
  /\ StoreStep(c, [clients[c] EXCEPT !.pc = "failed"])
  /\ UNCHANGED <<userDoc, docVersion>>

StudiedDoc ==
  DocOf(<<NewFlashcard(FlashcardData("T", 1), 0)>>,
        <<NewQuiz(QuizData("T", 2), 0)>>)

InitMutate ==
  /\ request = [auth |-> FALSE, data |-> RequestData(<<>>, "", 0, <<>>),
                processorId |-> FALSE]
  /\ InitPipelineLocals
  /\ InitUnitIdle
  /\ userDoc = StudiedDoc
  /\ initialDoc = userDoc
  /\ docVersion = 0
  /\ clock = 0
  /\ ticks = 0
  /\ clients \in
       { f \in [Clients -> UNION { { IdleClient(t, StudiedDoc.quizzes[1]) :
                                       t \in MutateTasks(c) } : c \in Clients }] :
           \A c \in Clients : f[c].task \in MutateTasks(c) }

NextMutate ==
  \/ \E c \in Clients : GetDoc(c)
  \/ \E c \in Clients : UpdateDoc(c)
  \/ \E c \in Clients : UpdateFail(c)
  \/ \E c \in Clients : TxGet(c)
  \/ \E c \in Clients : TxCommit(c)
  \/ \E c \in Clients : TxFail(c)
  \/ Tick

SpecMutate == InitMutate /\ [][NextMutate]_vars

(***************************************************************************)
(* Client wrapper around the callable                                      *)
(***************************************************************************)
\* the message of the Error the wrapper throws for a failed call
ClientErrorMessage(err) ==
  IF err.code = "invalid-argument"
  THEN IF err.message # <<>> THEN err.message
       ELSE <<"Invalid arguments provided">>
  ELSE IF err.code = "internal"
  THEN <<"Internal error: ">> \o err.message
  ELSE IF err.code = "failed-precondition"
  THEN <<"Failed precondition. Please try again.">>
  ELSE IF err.code = "unauthenticated"
  THEN <<"You must be authenticated to use this feature">>
  ELSE err.message

NextValidate == Entry

SpecValidate == InitValidate /\ [][NextValidate]_vars

(***************************************************************************)
(* Functions evaluated on their own                                        *)
(***************************************************************************)
Eval(fn, arg) == [fn |-> fn, arg |-> arg, out |-> <<>>, done |-> FALSE]

\* the function named fn returns value
Return(fn, value) ==
  /\ eval.fn = fn
  /\ ~eval.done
  /\ eval' = [eval EXCEPT !.out = value, !.done = TRUE]
  /\ UNCHANGED <<pipeVars, storeVars, extract, screenVars>>

Evaluated(fn) == eval.fn = fn /\ eval.done

Min(a, b) == IF a < b THEN a ELSE b
Max(a, b) == IF a > b THEN a ELSE b

\* Math.ceil(a / b) for a >= 0, b > 0
Ceil(a, b) == (a + b - 1) \div b

(***************************************************************************)
(* splitPdfIntoChunks                                                      *)
(***************************************************************************)
\* a chunk file: whether it is the source file itself, and the zero-based
\* page range [startPage, endPage) of the source it holds
SourceFile(pageCount) ==
  [isSource |-> TRUE, index |-> 0, startPage |-> 0, endPage |-> pageCount]
ChunkFile(chunkIndex, startPage, endPage) ==
  [isSource |-> FALSE, index |-> chunkIndex, startPage |-> startPage,
   endPage |-> endPage]

\* a splitter that cuts one page short of the limit
splitPdfIntoChunks_ShortChunks(pageCount) ==
  IF pageCount <= MaxPagesPerChunk
  THEN <<SourceFile(pageCount)>>
  ELSE LET numChunks == Ceil(pageCount, MaxPagesPerChunk)
       IN  [k \in 1..numChunks |->
              LET chunkIndex == k - 1
                  startPage == chunkIndex * MaxPagesPerChunk
                  endPage == Min(startPage + MaxPagesPerChunk - 1, pageCount)
              IN  ChunkFile(chunkIndex, startPage, endPage)]

splitPdfIntoChunks(pageCount) ==
  IF pageCount <= MaxPagesPerChunk
  THEN <<SourceFile(pageCount)>>
  ELSE LET numChunks == Ceil(pageCount, MaxPagesPerChunk)
       IN  [k \in 1..numChunks |->
              LET chunkIndex == k - 1
                  startPage == chunkIndex * MaxPagesPerChunk
                  endPage == Min(startPage + MaxPagesPerChunk, pageCount)
              IN  ChunkFile(chunkIndex, startPage, endPage)]

SplitInputs ==
  {Eval("splitPdfIntoChunks", [pageCount |-> n]) : n \in 0..MaxPages}

SplitPdfIntoChunks ==
  Return("splitPdfIntoChunks", splitPdfIntoChunks(eval.arg.pageCount))

(***************************************************************************)
(* extractTextFromFile                                                     *)
(***************************************************************************)
\* an error as the catch blocks see it: its code (0 for none) and whether
\* its message mentions "page" and "limit"
OcrError(code, page, limit) == [code |-> code, page |-> page, limit |-> limit]

\* what a plain Error thrown inside the function looks like
ThrownError(page, limit) == OcrError(0, page, limit)

OcrErrors ==
  { OcrError(InvalidArgumentCode, TRUE, TRUE),
    OcrError(InvalidArgumentCode, TRUE, FALSE),
    OcrError(14, FALSE, FALSE) }

\* error.code === 3 && message.includes('page') && message.includes('limit')
IsPageLimitError(error) ==
  error.code = InvalidArgumentCode /\ error.page /\ error.limit

\* an answer of the OCR service: a document text (empty for none) or an error
OcrAnswer(threw, text, error) == [threw |-> threw, text |-> text, error |-> error]

ChunkLetter(k) ==
  IF k = 0 THEN "w" ELSE IF k = 1 THEN "x" ELSE IF k = 2 THEN "y" ELSE "z"

OcrAnswers(target) ==
  { OcrAnswer(FALSE, <<>>, ThrownError(FALSE, FALSE)),
    OcrAnswer(FALSE, <<ChunkLetter(target)>>, ThrownError(FALSE, FALSE)) }
  \cup { OcrAnswer(TRUE, <<>>, e) : e \in OcrErrors }

\* '\n\n--- Chunk separator ---\n\n'
ChunkSeparator ==
  <<"\n", "\n", "-", "-", "-", " ", "C", "h", "u", "n", "k", " ", "s", "e",
    "p", "a", "r", "a", "t", "o", "r", " ", "-", "-", "-", "\n", "\n">>

Returned(text) == [kind |-> "text", text |-> text, prefix |-> "", cause |-> <<>>]
Failed(prefix, cause) ==
  [kind |-> "error", text |-> <<>>, prefix |-> prefix, cause |-> cause]
Running == [kind |-> "none", text |-> <<>>, prefix |-> "", cause |-> <<>>]

\* the chunk files a split writes, named by attempt and chunk index
FilesOf(mode, chunks) ==
  {<<mode, chunks[k].index>> : k \in {j \in 1..Len(chunks) : ~chunks[j].isSource}}

ExtractState(mimeType, pageCount, processorId) ==
  [pc |-> "start", mimeType |-> mimeType, pageCount |-> pageCount,
   processorId |-> processorId, mode |-> "first", chunks |-> <<>>, i |-> 0,
   extractedTexts |-> <<>>, pdfChunkPaths |-> {}, chunkFiles |-> {},
   calls |-> <<>>, answers |-> <<>>, original |-> ThrownError(FALSE, FALSE),
   outcome |-> Running]

PageCountInputs ==
  {1, ChunkThreshold, ChunkThreshold + 1, 2 * MaxPagesPerChunk + 1}

ExtractInputs ==
  { ExtractState(m, n, p) :
      m \in {"application/pdf", "image/png"}, n \in PageCountInputs,
      p \in BOOLEAN }

\* the function returns or throws
Finish(st, res) == [st EXCEPT !.pc = "done", !.outcome = res]

\* the next awaited OCR call is for the whole file (0) or for chunk i
Await(st) == [st EXCEPT !.pc = "call"]

\* the chunk files on disk when splitPdfIntoChunks has written the first
\* `written` of its chunks: all of them on success, fewer when it throws
\* on the way (the files it wrote before stay where they are)
WrittenBy(mode, chunks, written) == FilesOf(mode, SubSeq(chunks, 1, written))

\* the outer catch block; recount says whether getPdfPageCount succeeds
\* when the block calls it, resplit how many chunks splitPdfIntoChunks
\* writes there
Caught(st, error, recount, resplit) ==
  LET cleaned == IF st.pdfChunkPaths # {}
                 THEN [st EXCEPT !.chunkFiles = @ \ st.pdfChunkPaths]
                 ELSE st
      pageLimit == Failed("PDF exceeds Document AI page limit. Original error: ",
                          error)
  IN  IF IsPageLimitError(error)
      THEN IF st.mimeType = "application/pdf" /\ st.pdfChunkPaths = {}
           THEN IF ~recount THEN Finish(cleaned, pageLimit)
                ELSE IF st.pageCount > ChunkThreshold
                THEN LET chunks == splitPdfIntoChunks(st.pageCount)
                     IN  IF resplit < Len(chunks)
                         THEN Finish([cleaned EXCEPT
                                        !.chunkFiles =
                                          @ \cup WrittenBy("retry", chunks,
                                                           resplit)],
                                     pageLimit)
                         ELSE Await([cleaned EXCEPT
                                       !.mode = "retry", !.chunks = chunks,
                                       !.i = 1, !.extractedTexts = <<>>,
                                       !.original = error,
                                       !.chunkFiles =
                                         @ \cup FilesOf("retry", chunks)])
                ELSE Finish(cleaned, pageLimit)
           ELSE Finish(cleaned, pageLimit)
      ELSE Finish(cleaned, Failed("Failed to extract text: ", error))

\* from the call up to the first awaited OCR request
ExtractBegin ==
  /\ extract.pc = "start"
  /\ \E count \in BOOLEAN,
        written \in 0..Len(splitPdfIntoChunks(extract.pageCount)) :
       extract' =
         IF ~extract.processorId
         THEN Finish(extract,
                     Failed("Document AI processor ID not configured", <<>>))
         ELSE IF extract.mimeType # "application/pdf"
         THEN Await(extract)
         ELSE IF ~count
         THEN Caught(extract, ThrownError(TRUE, FALSE), TRUE, 0)
         ELSE IF extract.pageCount > ChunkThreshold
         THEN LET chunks == splitPdfIntoChunks(extract.pageCount)
              IN  IF written < Len(chunks)
                  THEN Caught([extract EXCEPT
                                 !.chunkFiles =
                                   WrittenBy("first", chunks, written)],
                              ThrownError(FALSE, FALSE), TRUE, 0)
                  ELSE Await([extract EXCEPT
                                !.chunks = chunks, !.i = 1,
                                !.pdfChunkPaths = FilesOf("first", chunks),
                                !.chunkFiles = FilesOf("first", chunks)])
         ELSE Await(extract)
  /\ UNCHANGED <<pipeVars, storeVars, eval, screenVars>>

\* client.processDocument is called, for the whole file or for chunk i
OcrCall ==
  /\ extract.pc = "call"
  /\ extract' = [extract EXCEPT
                   !.pc = "wait",
                   !.calls = Append(@, [mode |-> extract.mode,
                                        target |-> extract.i])]
  /\ UNCHANGED <<pipeVars, storeVars, eval, screenVars>>

\* the loop goes on to the next chunk, or the texts are joined and returned
Advance(st) ==
  IF st.i < Len(st.chunks)
  THEN Await([st EXCEPT !.i = @ + 1])
  ELSE Finish([st EXCEPT !.chunkFiles =
                 @ \ (IF st.mode = "first" THEN st.pdfChunkPaths
                      ELSE FilesOf("retry", st.chunks))],
              Returned(Join(st.extractedTexts, ChunkSeparator)))

\* a chunk loop that gives up on the first failing chunk
ChunkAnswered_AbortOnAnyError(st, answer) ==
  IF ~answer.threw
  THEN Advance([st EXCEPT !.extractedTexts = Append(@, answer.text)])
  ELSE Caught(st, ThrownError(TRUE, TRUE), TRUE, 0)

\* the awaited call of the first attempt's chunk loop is answered
ChunkAnswered(st, answer) ==
  IF ~answer.threw
  THEN Advance([st EXCEPT !.extractedTexts = Append(@, answer.text)])
  ELSE IF IsPageLimitError(answer.error)
  THEN Caught(st, ThrownError(TRUE, TRUE), TRUE, 0)
  ELSE Advance(st)

\* the awaited call of the retry's chunk loop is answered
RetryAnswered(st, answer) ==
  IF ~answer.threw
  THEN Advance([st EXCEPT !.extractedTexts = Append(@, answer.text)])
  ELSE Finish(st, Failed("PDF exceeds Document AI page limit. Original error: ",
                         st.original))

\* the awaited OCR request is answered
OcrReturn ==
  /\ extract.pc = "wait"
  /\ \E answer \in OcrAnswers(extract.i), recount \in BOOLEAN,
        resplit \in 0..Len(splitPdfIntoChunks(extract.pageCount)) :
       LET st == [extract EXCEPT !.answers = Append(@, answer)]
       IN  extract' =
             IF st.i = 0
             THEN IF ~answer.threw THEN Finish(st, Returned(answer.text))
                  ELSE Caught(st, answer.error, recount, resplit)
             ELSE IF st.mode = "first" THEN ChunkAnswered(st, answer)
             ELSE RetryAnswered(st, answer)
  /\ UNCHANGED <<pipeVars, storeVars, eval, screenVars>>

InitExtract ==
  /\ request = [auth |-> FALSE, data |-> RequestData(<<>>, "", 0, <<>>),
                processorId |-> FALSE]
  /\ InitPipelineLocals
  /\ InitStoreIdle
  /\ eval = NoEval
  /\ InitScreensIdle
  /\ extract \in ExtractInputs

NextExtract ==
  \/ ExtractBegin
  \/ OcrCall
  \/ OcrReturn

SpecExtract == InitExtract /\ [][NextExtract]_vars

(***************************************************************************)
(* parseFlashcardResponse and parseQuizResponse on their own               *)
(***************************************************************************)
WithText(r, text) == [r EXCEPT !.text = text]

ResponseTexts ==
  { Body,
    <<" ", "{}", "\n">>,
    <<Fence, "json", "\n", "{}", "\n", Fence>>,
    <<Fence, "\n", "{}", "\n", Fence>>,
    <<Fence, "json", "{}", Fence>>,
    <<Fence, "JSON", "\n", "{}", "\n", Fence>>,
    <<Fence, "json", "\n", "{}">>,
    <<"{}", "\n", Fence>> }

TitleValues == {Absent, JsonNull, JsonNumber, Str(""), Str("T")}
TagValues == {Absent, Str("t"), ListOf(<<Str("t")>>)}

CardValues ==
  { SampleCard,
    JsonCard("null", Absent, Absent),
    JsonCard("object", Absent, Str("A")),
    JsonCard("object", Str(""), Str("A")),
    JsonCard("object", Str("Q"), JsonNumber),
    JsonCard("object", Str("Q"), Str("")) }

CardLists ==
  {Absent, JsonNull, ListOf(<<>>)}
  \cup {ListOf(<<c>>) : c \in CardValues}
  \cup {ListOf(<<SampleCard, c>>) : c \in CardValues}
  \cup {ListOf(<<c, SampleCard>>) : c \in CardValues}

FlashcardParseInputs ==
  { Eval("parseFlashcardResponse",
         WithText(RawResponse(parses, title, tags, cards, Absent), text)) :
      parses \in BOOLEAN, title \in TitleValues, tags \in TagValues,
      cards \in CardLists, text \in ResponseTexts }

ParseFlashcardResponse ==
  Return("parseFlashcardResponse", parseFlashcardResponse(eval.arg))

QuestionValues ==
  { JsonQuestion("object", type, question, answer, options) :
      type \in {Str(t) : t \in QuestionTypes} \cup {Str("essay"), Absent},
      question \in {Str("Q"), Str(""), Absent},
      answer \in {Str("A"), Str(""), ListOf(<<Str("A")>>), JsonNull, Absent},
      options \in {Absent, ListOf(<<Str("A")>>),
                   ListOf(<<Str("A"), Str("B")>>)} }
  \cup {JsonQuestion("null", Absent, Absent, Absent, Absent)}

QuestionLists ==
  {Absent, ListOf(<<>>)}
  \cup {ListOf(<<q>>) : q \in QuestionValues}
  \cup {ListOf(<<SampleQuestion, q>>) : q \in QuestionValues}

QuizParseInputs ==
  { Eval("parseQuizResponse",
         WithText(RawResponse(parses, title, tags, Absent, questions), text)) :
      parses \in BOOLEAN, title \in {Absent, Str(""), Str("T")},
      tags \in {Absent, ListOf(<<Str("t")>>)}, questions \in QuestionLists,
      text \in {Body, <<Fence, "json", "\n", "{}", "\n", Fence>>,
                <<"{}", "\n", Fence>>} }

ParseQuizResponse ==
  Return("parseQuizResponse", parseQuizResponse(eval.arg))

(***************************************************************************)
(* fuzzyMatch                                                              *)
(***************************************************************************)
LowerLetters == {"a", "b"}
UpperLetters == {"A"}
PunctuationChars == {"."}
AnswerChars == LowerLetters \cup UpperLetters \cup PunctuationChars \cup {" "}

\* String.prototype.toLowerCase, character by character
ToLowerCase(str) ==
  [k \in 1..Len(str) |-> IF str[k] = "A" THEN "a" ELSE str[k]]

\* \w and \s of the regular expressions
IsWordChar(c) == c \in LowerLetters \cup UpperLetters
IsSpaceChar(c) == c \in WhitespaceChars

\* replace(/[^\w\s]/g, '')
RemovePunctuation(str) ==
  SelectSeq(str, LAMBDA c : IsWordChar(c) \/ IsSpaceChar(c))

\* replace(/\s+/g, ' '): every run of whitespace becomes one space
RECURSIVE CollapseWhitespace(_)
CollapseWhitespace(str) ==
  IF str = <<>> THEN <<>>
  ELSE IF ~IsSpaceChar(Head(str))
  THEN <<Head(str)>> \o CollapseWhitespace(Tail(str))
  ELSE IF Len(str) >= 2 /\ IsSpaceChar(str[2])
  THEN CollapseWhitespace(Tail(str))
  ELSE <<" ">> \o CollapseWhitespace(Tail(str))

normalizeString(str) ==
  CollapseWhitespace(RemovePunctuation(ToLowerCase(Trim(str))))

\* String.prototype.includes
Includes(str, part) ==
  \E k \in 1..(Len(str) - Len(part) + 1) :
    SubSeq(str, k, k + Len(part) - 1) = part

Min3(a, b, c) == Min(a, Min(b, c))

\* row i of the matrix from row i - 1, filled from column 1 to the right;
\* a row is kept as the sequence of its entries for columns 0, 1, 2, ...
RECURSIVE MatrixRow(_, _, _, _, _)
MatrixRow(row, above, i, str1, str2) ==
  LET j == Len(row)
  IN  IF j > Len(str1) THEN row
      ELSE MatrixRow(
             Append(row, IF str2[i] = str1[j] THEN above[j]
                         ELSE Min3(above[j] + 1, row[j] + 1, above[j + 1] + 1)),
             above, i, str1, str2)

\* the rows are computed top down, each one in full before the next
RECURSIVE MatrixRows(_, _, _)
MatrixRows(i, str1, str2) ==
  IF i = 0 THEN [j \in 1..(Len(str1) + 1) |-> j - 1]
  ELSE LET above == MatrixRows(i - 1, str1, str2)
       IN  IF Len(above) = 0 THEN above
           ELSE MatrixRow(<<i>>, above, i, str1, str2)

levenshteinDistance(str1, str2) ==
  MatrixRows(Len(str2), str1, str2)[Len(str1) + 1]

\* Math.floor(maxLength * 0.1); the product is never below the exact tenth,
\* so the floor is the integer quotient
MaxAllowedDistance(maxLength) ==
  Max(MinAllowedDistance, maxLength \div AllowedDistanceDivisor)

\* a matcher that allows one edit more
fuzzyMatch_Lenient(userAnswer, correctAnswer) ==
  IF userAnswer = <<>> \/ correctAnswer = <<>> THEN FALSE
  ELSE LET normalizedUser == normalizeString(userAnswer)
           normalizedCorrect == normalizeString(correctAnswer)
       IN  IF normalizedUser = normalizedCorrect THEN TRUE
           ELSE IF Includes(normalizedUser, normalizedCorrect)
                     \/ Includes(normalizedCorrect, normalizedUser)
           THEN TRUE
           ELSE LET distance ==
                      levenshteinDistance(normalizedUser, normalizedCorrect)
                    maxLength ==
                      Max(Len(normalizedUser), Len(normalizedCorrect))
                IN  distance <= MaxAllowedDistance(maxLength) + 1

fuzzyMatch(userAnswer, correctAnswer) ==
  IF userAnswer = <<>> \/ correctAnswer = <<>> THEN FALSE
  ELSE LET normalizedUser == normalizeString(userAnswer)
           normalizedCorrect == normalizeString(correctAnswer)
       IN  IF normalizedUser = normalizedCorrect THEN TRUE
           ELSE IF Includes(normalizedUser, normalizedCorrect)
                     \/ Includes(normalizedCorrect, normalizedUser)
           THEN TRUE
           ELSE LET distance ==
                      levenshteinDistance(normalizedUser, normalizedCorrect)
                    maxLength ==
                      Max(Len(normalizedUser), Len(normalizedCorrect))
                IN  distance <= MaxAllowedDistance(maxLength)

\* n times the character c
Rep(n, c) == [k \in 1..n |-> c]

StringsUpTo(n) == UNION {[1..m -> AnswerChars] : m \in 0..n}

CorrectAnswers ==
  { <<>>, <<"a">>, <<"a", "b">>, <<"a", " ", "b">>, <<".", " ", "a", "b">>,
    <<"b", "a", "b", "a", "b">>, <<"a", "b", " ", "a", "b", " ", "a", "b">> }

\* pairs long enough for the tenth of the length to exceed the fixed allowance
LongPairs ==
  { <<Rep(30, "a"), Rep(27, "a") \o Rep(3, "b")>>,
    <<Rep(26, "a") \o Rep(3, "b"), Rep(29, "a")>>,
    <<Rep(30, "a"), Rep(26, "a") \o Rep(4, "b")>> }

FuzzyArg(userAnswer, correctAnswer) ==
  [userAnswer |-> userAnswer, correctAnswer |-> correctAnswer]

FuzzyInputs ==
  { Eval("fuzzyMatch", FuzzyArg(u, c)) :
      u \in StringsUpTo(MaxAnswerLen), c \in CorrectAnswers }
  \cup { Eval("fuzzyMatch", FuzzyArg(p[1], p[2])) : p \in LongPairs }

FuzzyMatch ==
  Return("fuzzyMatch",
         [match |-> fuzzyMatch(eval.arg.userAnswer, eval.arg.correctAnswer)])

(***************************************************************************)
(* arrayMatch, checkAnswer, calculateQuizScore                             *)
(***************************************************************************)
\* an answer is a string, a list of strings, or undefined (not answered)
TextAnswer(text) == [kind |-> "string", text |-> text, items |-> <<>>]
ListAnswer(items) == [kind |-> "array", text |-> <<>>, items |-> items]
Undefined == [kind |-> "undefined", text |-> <<>>, items |-> <<>>]

Options == {"a", "b", "c"}

\* the order of Array.prototype.sort without a comparator: by code unit
CodeUnit(option) == CASE option = "a" -> 97 [] option = "b" -> 98 [] OTHER -> 99

RECURSIVE Insert(_, _)
Insert(sorted, val) ==
  IF sorted = <<>> THEN <<val>>
  ELSE IF CodeUnit(val) < CodeUnit(Head(sorted)) THEN <<val>> \o sorted
  ELSE <<Head(sorted)>> \o Insert(Tail(sorted), val)

RECURSIVE Sort(_)
Sort(arr) ==
  IF arr = <<>> THEN <<>> ELSE Insert(Sort(Tail(arr)), Head(arr))

\* a comparison position by position, without sorting
arrayMatch_InOrder(arr1, arr2) ==
  IF Len(arr1) # Len(arr2) THEN FALSE
  ELSE \A index \in 1..Len(arr1) : arr1[index] = arr2[index]

arrayMatch(arr1, arr2) ==
  IF Len(arr1) # Len(arr2) THEN FALSE
  ELSE LET sorted1 == Sort(arr1)
           sorted2 == Sort(arr2)
       IN  \A index \in 1..Len(sorted1) : sorted1[index] = sorted2[index]

\* userAnswer === correctAnswer: strings by value, two lists never (they
\* are two objects), undefined only with undefined
StrictEquals(userAnswer, correctAnswer) ==
  /\ userAnswer.kind = correctAnswer.kind
  /\ userAnswer.kind # "array"
  /\ userAnswer.text = correctAnswer.text

\* a checker that takes an empty answer for a match of an empty answer
checkAnswer_EmptyMatches(userAnswer, correctAnswer, questionType) ==
  IF questionType = "multiple-choice"
  THEN StrictEquals(userAnswer, correctAnswer)
  ELSE IF questionType = "multiple-selection"
  THEN IF userAnswer.kind = "array" /\ correctAnswer.kind = "array"
       THEN arrayMatch(userAnswer.items, correctAnswer.items)
       ELSE FALSE
  ELSE IF questionType = "fill-in-the-blank"
  THEN IF userAnswer.kind = "string" /\ correctAnswer.kind = "string"
       THEN \/ userAnswer.text = correctAnswer.text
            \/ fuzzyMatch(userAnswer.text, correctAnswer.text)
       ELSE FALSE
  ELSE FALSE

checkAnswer(userAnswer, correctAnswer, questionType) ==
  IF questionType = "multiple-choice"
  THEN StrictEquals(userAnswer, correctAnswer)
  ELSE IF questionType = "multiple-selection"
  THEN IF userAnswer.kind = "array" /\ correctAnswer.kind = "array"
       THEN arrayMatch(userAnswer.items, correctAnswer.items)
       ELSE FALSE
  ELSE IF questionType = "fill-in-the-blank"
  THEN IF userAnswer.kind = "string" /\ correctAnswer.kind = "string"
       THEN fuzzyMatch(userAnswer.text, correctAnswer.text)
       ELSE FALSE
  ELSE FALSE

(* Numbers of the program are IEEE 754 doubles.  A positive double is kept  *)
(* as its digits in base two, most significant first, and the number of    *)
(* digits after the binary point: the value is the digits read as an       *)
(* integer, divided by 2^point.  Arithmetic goes through limbs of          *)
(* LimbBits digits, which fit the integers of the model.                   *)
Binary(bits, point) == [bits |-> bits, point |-> point]

Front(bits) == SubSeq(bits, 1, Len(bits) - 1)
Last(bits) == bits[Len(bits)]
Zeros(n) == [k \in 1..n |-> 0]

RECURSIVE Pow2(_)
Pow2(n) == IF n = 0 THEN 1 ELSE 2 * Pow2(n - 1)

RECURSIVE BitsValue(_)
BitsValue(bits) ==
  IF bits = <<>> THEN 0 ELSE 2 * BitsValue(Front(bits)) + Last(bits)

\* the digits of a limb
LimbDigits(limb) == [k \in 1..LimbBits |-> (limb \div Pow2(LimbBits - k)) % 2]

StripZeros(bits) ==
  LET ones == {k \in 1..Len(bits) : bits[k] = 1}
  IN  IF ones = {} THEN <<>>
      ELSE SubSeq(bits, CHOOSE k \in ones : \A j \in ones : k <= j, Len(bits))

\* the digits of the integer one above
Increment(bits) ==
  LET zeros == {k \in 1..Len(bits) : bits[k] = 0}
  IN  IF zeros = {} THEN <<1>> \o Zeros(Len(bits))
      ELSE LET p == CHOOSE k \in zeros : \A j \in zeros : j <= k
           IN  [k \in 1..Len(bits) |->
                  IF k < p THEN bits[k] ELSE IF k = p THEN 1 ELSE 0]

\* round to nearest, ties to even: the digits kept, the first digit dropped,
\* and whether anything but zeros follows it
RoundToNearestEven(kept, roundBit, sticky) ==
  IF roundBit = 1 /\ (sticky \/ Last(kept) = 1) THEN Increment(kept) ELSE kept

\* an exact value rounded to the digits a double holds
ToDouble(x, inexact) ==
  LET bits == StripZeros(x.bits)
      extra == Len(bits) - MantissaBits
  IN  IF extra <= 0 THEN Binary(bits, x.point)
      ELSE Binary(
             RoundToNearestEven(
               SubSeq(bits, 1, MantissaBits), bits[MantissaBits + 1],
               inexact \/ \E k \in (MantissaBits + 2)..Len(bits) : bits[k] = 1),
             x.point - extra)

\* long division, a limb at a time: the next limbs of rem / divisor
RECURSIVE QuotientLimbs(_, _, _, _)
QuotientLimbs(bits, rem, divisor, count) ==
  IF count = 0 THEN [bits |-> bits, rem |-> rem]
  ELSE LET shifted == rem * Pow2(LimbBits)
       IN  QuotientLimbs(bits \o LimbDigits(shifted \div divisor),
                         shifted % divisor, divisor, count - 1)

\* how often a numerator is doubled until its first quotient digit is 1
RECURSIVE LeadingZeros(_, _)
LeadingZeros(numerator, divisor) ==
  IF 2 * numerator >= divisor THEN 0
  ELSE 1 + LeadingZeros(2 * numerator, divisor)

\* numerator / divisor in double precision, for 0 < numerator <= divisor
Divide(numerator, divisor) ==
  IF numerator = divisor THEN Binary(<<1>>, 0)
  ELSE LET zeros == LeadingZeros(numerator, divisor)
           q == QuotientLimbs(<<>>, numerator * Pow2(zeros), divisor,
                              QuotientLimbCount)
       IN  ToDouble(Binary(q.bits, Len(q.bits) + zeros), q.rem # 0)

\* the limbs of a product with a small factor, least significant limb last
RECURSIVE TimesSmall(_, _, _)
TimesSmall(bits, factor, carry) ==
  IF bits = <<>> THEN LimbDigits(carry)
  ELSE LET low == IF Len(bits) <= LimbBits THEN bits
                  ELSE SubSeq(bits, Len(bits) - LimbBits + 1, Len(bits))
           high == SubSeq(bits, 1, Len(bits) - Len(low))
           product == BitsValue(low) * factor + carry
       IN  TimesSmall(high, factor, product \div Pow2(LimbBits))
             \o LimbDigits(product % Pow2(LimbBits))

Times100(x) == ToDouble(Binary(TimesSmall(x.bits, 100, 0), x.point), FALSE)

\* Math.round: the nearest integer, halves going up
MathRound(x) ==
  LET whole == Len(x.bits) - x.point
  IN  IF whole < 0 THEN 0
      ELSE BitsValue(SubSeq(x.bits, 1, whole))
             + (IF x.point >= 1 /\ x.bits[whole + 1] = 1 THEN 1 ELSE 0)

\* Math.round((count / total) * 100), for 0 <= count <= total, total > 0
RoundPercent(count, total) ==
  IF count = 0 THEN 0 ELSE MathRound(Times100(Divide(count, total)))

QuizQuestion(type, answer, currentAnswer) ==
  [type |-> type, answer |-> answer, currentAnswer |-> currentAnswer]

\* the questions that the forEach counts
CorrectCount(questionsList) ==
  Cardinality({k \in 1..Len(questionsList) :
                 checkAnswer(questionsList[k].currentAnswer,
                             questionsList[k].answer, questionsList[k].type)})

calculateQuizScore(quiz) ==
  IF quiz.questionsList = <<>> THEN 0
  ELSE RoundPercent(CorrectCount(quiz.questionsList), Len(quiz.questionsList))

ListsUpTo(n) == UNION {[1..m -> Options] : m \in 0..n}

TextSamples ==
  { <<>>, <<" ">>, <<"a">>, <<"a", "b">>, <<"A", "b", ".">>,
    <<"b", "b", "b", "b", "b">> }

AnswerSamples ==
  {TextAnswer(t) : t \in TextSamples}
    \cup {ListAnswer(l) : l \in {<<>>, <<"a">>, <<"a", "b">>, <<"b", "a">>}}
    \cup {Undefined}

CheckArg(userAnswer, correctAnswer, questionType) ==
  [userAnswer |-> userAnswer, correctAnswer |-> correctAnswer,
   questionType |-> questionType]

CheckInputs ==
  { Eval("checkAnswer", CheckArg(u, c, t)) :
      u \in AnswerSamples, c \in AnswerSamples,
      t \in QuestionTypes \cup {"unknown"} }
  \cup { Eval("checkAnswer",
              CheckArg(ListAnswer(u), ListAnswer(c), "multiple-selection")) :
           u \in ListsUpTo(MaxSelected), c \in ListsUpTo(MaxSelected) }

CheckAnswer ==
  Return("checkAnswer",
         [match |-> checkAnswer(eval.arg.userAnswer, eval.arg.correctAnswer,
                                eval.arg.questionType)])

QuestionSamples ==
  { QuizQuestion("fill-in-the-blank", TextAnswer(<<"a", "b">>),
                 TextAnswer(<<"A", "b", ".">>)),
    QuizQuestion("fill-in-the-blank", TextAnswer(<<"a", "b">>),
                 TextAnswer(<<>>)),
    QuizQuestion("fill-in-the-blank", TextAnswer(<<>>), TextAnswer(<<>>)),
    QuizQuestion("fill-in-the-blank", TextAnswer(<<"a", "b">>), Undefined),
    QuizQuestion("multiple-choice", TextAnswer(<<"a">>), TextAnswer(<<"a">>)),
    QuizQuestion("multiple-selection", ListAnswer(<<"a", "b">>),
                 ListAnswer(<<"b", "a">>)) }

\* a quiz of total multiple-choice questions, the first count answered right
LongQuiz(count, total) ==
  [k \in 1..total |->
     QuizQuestion("multiple-choice", TextAnswer(<<"a">>),
                  IF k <= count THEN TextAnswer(<<"a">>)
                  ELSE TextAnswer(<<"b">>))]

QuizInputs ==
  { Eval("calculateQuizScore", [questionsList |-> l]) :
      l \in UNION {[1..m -> QuestionSamples] : m \in 0..MaxQuestions}
            \cup {LongQuiz(c, 40) : c \in {22, 23, 24}}
            \cup {LongQuiz(3, 8)} }

CalculateQuizScore ==
  Return("calculateQuizScore", [score |-> calculateQuizScore(eval.arg)])

(***************************************************************************)
(* updateCardConfidence                                                    *)
(***************************************************************************)
\* a counter that starts over past the highest level
updateCardConfidence_Wrapping(currentLevel, isCorrect) ==
  IF isCorrect
  THEN (currentLevel + 1) % (MaxConfidence + 1)
  ELSE (currentLevel - 1) % (MaxConfidence + 1)

updateCardConfidence(currentLevel, isCorrect) ==
  IF isCorrect
  THEN Min(MaxConfidence, currentLevel + 1)
  ELSE Max(MinConfidence, currentLevel - 1)

ConfidenceInputs ==
  { Eval("updateCardConfidence", [currentLevel |-> l, isCorrect |-> b]) :
      l \in (MinConfidence - 1)..(MaxConfidence + 1), b \in BOOLEAN }

UpdateCardConfidence ==
  Return("updateCardConfidence",
         [level |-> updateCardConfidence(eval.arg.currentLevel,
                                         eval.arg.isCorrect)])

(***************************************************************************)
(* calculateSessionStats                                                   *)
(***************************************************************************)
SessionResult(wasCorrect, newConfidence) ==
  [wasCorrect |-> wasCorrect, newConfidence |-> newConfidence]

calculateSessionStats(sessionResults) ==
  IF sessionResults = <<>> THEN [know |-> 0, learning |-> 0, accuracy |-> 0]
  ELSE LET known == {k \in 1..Len(sessionResults) :
                       \/ sessionResults[k].wasCorrect
                       \/ sessionResults[k].newConfidence = MaxConfidence}
           know == Cardinality(known)
           learning == Len(sessionResults) - know
           correct == know
       IN  [know |-> know, learning |-> learning,
            accuracy |-> RoundPercent(correct, Len(sessionResults))]

ResultSamples ==
  {SessionResult(w, c) : w \in BOOLEAN, c \in {1, MaxConfidence - 1, MaxConfidence}}

\* a session of total answers of which the first count are right
LongSession(count, total) ==
  [k \in 1..total |->
     IF k <= count THEN SessionResult(TRUE, 1) ELSE SessionResult(FALSE, 0)]

StatsInputs ==
  { Eval("calculateSessionStats", [sessionResults |-> l]) :
      l \in UNION {[1..m -> ResultSamples] : m \in 0..MaxResults}
            \cup {LongSession(c, 40) : c \in {22, 23, 24}}
            \cup {LongSession(3, 8)} }

CalculateSessionStats ==
  Return("calculateSessionStats",
         calculateSessionStats(eval.arg.sessionResults))

AnswerInputs ==
  FuzzyInputs \cup CheckInputs \cup QuizInputs \cup ConfidenceInputs
    \cup StatsInputs


(***************************************************************************)
(* Evaluation of one function on one input                                 *)
(***************************************************************************)
EvalInputs ==
  SplitInputs \cup FlashcardParseInputs \cup QuizParseInputs

InitEval ==
  /\ request = [auth |-> FALSE, data |-> RequestData(<<>>, "", 0, <<>>),
                processorId |-> FALSE]
  /\ InitPipelineLocals
  /\ InitStoreIdle
  /\ extract = NoExtract
  /\ InitScreensIdle
  /\ eval \in EvalInputs

NextEval ==
  \/ SplitPdfIntoChunks
  \/ ParseFlashcardResponse
  \/ ParseQuizResponse

SpecEval == InitEval /\ [][NextEval]_vars

InitAnswer ==
  /\ request = [auth |-> FALSE, data |-> RequestData(<<>>, "", 0, <<>>),
                processorId |-> FALSE]
  /\ InitPipelineLocals
  /\ InitStoreIdle
  /\ extract = NoExtract
  /\ InitScreensIdle
  /\ eval \in AnswerInputs

NextAnswer ==
  \/ FuzzyMatch
  \/ CheckAnswer
  \/ CalculateQuizScore
  \/ UpdateCardConfidence
  \/ CalculateSessionStats

SpecAnswer == InitAnswer /\ [][NextAnswer]_vars

(***************************************************************************)
(* Properties of processNotes                                              *)
(***************************************************************************)
LogOps(ops) == {k \in 1..Len(callLog) : callLog[k].op \in ops}
InLog(c) == \E k \in 1..Len(callLog) : callLog[k] = c

\* C1: every request that uploaded at least one file attempts cleanup (the
\* deletion of each downloaded temp file and of each uploaded artifact)
\* before it reports its outcome, on failure as well as on success.
C1_CleanupBeforeOutcome ==
  (outcome.kind # "none" /\ uploadedFileUrls # <<>>) =>
    /\ \A k \in 1..Len(uploadedFileUrls) :
         InLog(Call("delete", uploadedFileUrls[k]))
    /\ \A k \in 1..Len(downloadedFiles) :
         InLog(Call("unlink", downloadedFiles[k].filePath))

(***************************************************************************)
(* Properties of the user document                                         *)
(***************************************************************************)
Elements(list) == {list[k] : k \in 1..Len(list)}

\* entities of the history that were not there at the start
AppendedTo(op) ==
  LET now == ListOfKind(op, userDoc)
      before == ListOfKind(op, initialDoc)
  IN  {k \in 1..Len(now) : k > Len(before)}

\* two finished saves of the same kind, title and item count whose
\* creation timestamps are less than five seconds apart
TwinSaves(a, b) ==
  /\ a # b
  /\ clients[a].task = clients[b].task
  /\ clients[a].task.op \in {"saveQuiz", "saveFlashcard"}
  /\ clients[a].pc = "done" /\ clients[b].pc = "done"
  /\ Abs(clients[a].now - clients[b].now) < DuplicateWindowMs

\* the history at the start holds nothing with the twins' title and count
FreshTitle(task) ==
  \A e \in Elements(ListOfKind(task.op, initialDoc)) :
    ~(e.title = task.title /\ ItemCount(task.op, e) = task.count)

\* C2: of two saves with the same title and item count less than five
\* seconds apart, in any interleaving, exactly one entity is appended to the
\* history and both calls return that entity (the second call returns what
\* the first persisted).  Stated for histories that hold no earlier entity
\* with that title and item count.
C2_OneAppendedSecondReturnsFirst ==
  \A a, b \in Clients :
    (TwinSaves(a, b) /\ FreshTitle(clients[a].task)) =>
      LET op == clients[a].task.op
      IN  /\ Cardinality(AppendedTo(op)) = 1
          /\ \A k \in AppendedTo(op) :
               /\ clients[a].saved = ListOfKind(op, userDoc)[k]
               /\ clients[b].saved = ListOfKind(op, userDoc)[k]

\* what a finished mutation leaves in the document
EffectPresent(c) ==
  LET task == clients[c].task
  IN  IF task.op = "addCard"
      THEN \E k \in 1..Len(userDoc.flashcards[task.index].cards) :
             userDoc.flashcards[task.index].cards[k].question = task.text
      ELSE IF task.op = "saveAnswer"
      THEN userDoc.quizzes[1].questionsList[task.index].currentAnswer
             = task.text
      ELSE clients[c].saved \in Elements(ListOfKind(task.op, userDoc))

\* C3: whatever the interleaving of two mutations of the same user document,
\* once both have finished the document holds the effect of both.
C3_NoLostUpdate ==
  (\A c \in Clients : clients[c].pc = "done") =>
    \A c \in Clients : EffectPresent(c)

\* the validation rules as statements about a request, with their messages
RuleViolations(d) ==
  { m \in { <<"At least one file is required">>,
            <<"selectionType must be \"flashcard\" or \"quiz\"">>,
            <<"numberOfItems must be greater than 0">>,
            <<"quizQuestionTypes is required for quiz type">> } :
      \/ m[1] = "At least one file is required" /\ d.files = <<>>
      \/ m[1] = "selectionType must be \"flashcard\" or \"quiz\""
           /\ d.selectionType \notin {"flashcard", "quiz"}
      \/ m[1] = "numberOfItems must be greater than 0" /\ ~(d.numberOfItems > 0)
      \/ m[1] = "quizQuestionTypes is required for quiz type"
           /\ d.selectionType = "quiz" /\ d.quizQuestionTypes = <<>> }
  \cup
  UNION { { m \in { <<"Each file must have name, type, and base64 data">>,
                    <<"File type must be \"pdf\" or \"image\"">>,
                    <<"Invalid base64 data format">>,
                    <<"File is too large. Maximum size is 24MB.",
                      d.files[k].name>> } :
      LET f == d.files[k]
          b == f.base64
      IN  \/ m[1] = "Each file must have name, type, and base64 data"
               /\ (f.name = "" \/ f.type = "" \/ b.lead + b.core + b.trail = 0)
          \/ m[1] = "File type must be \"pdf\" or \"image\""
               /\ f.type \notin {"pdf", "image"}
          \/ m[1] = "Invalid base64 data format" /\ (b.core = 0 \/ b.bad)
          \/ m[1] = "File is too large. Maximum size is 24MB."
               /\ 3 * (b.lead + b.core + b.trail) > 4 * 24 * 1024 * 1024 }
        : k \in 1..Len(d.files) }

\* C4: an unauthenticated caller or a request that violates a validation
\* rule fails before any upload, download, OCR or generative call, and a
\* validation failure reaches the caller as InvalidArgument with the
\* message of a rule the request violates, unchanged by the client wrapper.
C4_RejectedBeforeAnyCall ==
  (~request.auth \/ RuleViolations(request.data) # {}) =>
    /\ callLog = <<>> /\ inflight = {} /\ storage = {} /\ tempFiles = {}
    /\ pc \in {"entry", "done"}
    /\ pc = "done" =>
         /\ outcome.kind = "error"
         /\ request.auth =>
              /\ outcome.code = "invalid-argument"
              /\ outcome.message \in RuleViolations(request.data)
              /\ ClientErrorMessage(outcome) = outcome.message
         /\ ~request.auth => outcome.code = "unauthenticated"

C4_Witness ==
  /\ pc = "done" /\ request.auth
  /\ outcome.code = "invalid-argument"
  /\ outcome.message = <<"Invalid base64 data format">>
  /\ Len(files) = 2

\* the two response schemas as statements about the returned data
IsFlashcardArtifact(d) ==
  /\ d # NoData
  /\ d.title.kind = "string" /\ d.title.s # ""
  /\ d.tags.isList
  /\ d.cards.isList
  /\ \A k \in 1..Len(d.cards.items) :
       /\ d.cards.items[k].question.kind = "string"
       /\ d.cards.items[k].question.s # ""
       /\ d.cards.items[k].answer.kind = "string"
       /\ d.cards.items[k].answer.s # ""

IsQuizArtifact(d) ==
  /\ d # NoData
  /\ d.title.kind = "string" /\ d.title.s # ""
  /\ d.tags.isList
  /\ d.questionsList.isList
  /\ \A k \in 1..Len(d.questionsList.items) :
       /\ d.questionsList.items[k].type.s \in
            {"multiple-choice", "multiple-selection", "fill-in-the-blank"}
       /\ d.questionsList.items[k].question.kind = "string"
       /\ d.questionsList.items[k].question.s # ""

\* C5: a request ends either in success with exactly one generated artifact
\* that satisfies the schema of its selectionType and was produced by
\* exactly one generation call, or in an error without data; never in
\* success after a fatal stage failure.
C5_SuccessOrError ==
  /\ (pc = "done") <=> (outcome.kind \in {"success", "error"})
  /\ outcome.kind = "success" =>
       /\ ~fatal
       /\ Cardinality(LogOps({"generate"})) = 1
       /\ IF request.data.selectionType = "flashcard"
          THEN IsFlashcardArtifact(outcome.data)
          ELSE IsQuizArtifact(outcome.data)
  /\ outcome.kind = "error" => outcome.data = NoData /\ outcome.code # ""

C5_Witness ==
  /\ outcome.kind = "success"
  /\ request.data.selectionType = "quiz"
  /\ IsQuizArtifact(outcome.data)

\* C6: a PDF whose OCR call throws or returns empty or whitespace-only text
\* fails the whole request with an Internal error, and no generation call
\* is made, whatever the other files yielded.
C6_PdfExtractionFatal ==
  ( /\ lastResp.op = "ocr"
    /\ files[lastResp.file].type = "pdf"
    /\ (lastResp.threw \/ Inked(lastResp.text) = {}) ) =>
    /\ pc = "done"
    /\ outcome.kind = "error" /\ outcome.code = "internal"
    /\ LogOps({"generate"}) = {}

C6_Witness ==
  /\ lastResp.op = "ocr" /\ lastResp.file = 2
  /\ files[2].type = "pdf"
  /\ ~lastResp.threw /\ lastResp.text = <<" ">>
  /\ Inked(extractedFiles[1].textContent) # {}
  /\ outcome.code = "internal"

\* the files whose processing (step 4) is over
Processed == 1..Len(contribution)

IsImageFile(i) == files[i].type = "image"

NonBlank(text) == \E k \in 1..Len(text) : text[k] \notin {" ", "\n"}

\* number of whitespace-separated words of a text
WordsIn(text) ==
  Cardinality({k \in 1..Len(text) :
                 /\ text[k] \notin {" ", "\n"}
                 /\ (k = 1 \/ text[k - 1] \in {" ", "\n"})})

Contributors == {i \in Processed : contribution[i].has}

\* the texts of the contributing files, in file order
RECURSIVE ContributedFrom(_)
ContributedFrom(i) ==
  IF i > Len(contribution) THEN <<>>
  ELSE IF contribution[i].has
       THEN <<contribution[i].text>> \o ContributedFrom(i + 1)
       ELSE ContributedFrom(i + 1)

C7_OcrFailureTolerated ==
  (lastResp.op = "ocr" /\ IsImageFile(lastResp.file) /\ lastResp.threw) =>
    /\ outcome.kind = "none"
    /\ extractedFiles[lastResp.file].textContent = <<>>

C7_DiagramExactlyWhenSparse ==
  \A i \in Processed :
    IsImageFile(i) =>
      (InLog(Call("diagram", i)) <=>
         WordsIn(extractedFiles[i].textContent) < 50)

NonEmpty(text) == text # <<>>

\* which texts count as usable: the non-empty ones, or only those that are
\* non-empty after trimming
Usable(text, trimmed) == IF trimmed THEN NonBlank(text) ELSE NonEmpty(text)

\* the contribution of the image whose diagram call has just returned
C7_Contribution(trimmed) ==
  (lastResp.op = "diagram") =>
    LET i == lastResp.file
        ocr == extractedFiles[i].textContent
    IN  /\ i \in Processed
        /\ contribution[i] =
             IF ~lastResp.threw /\ Usable(lastResp.text, trimmed)
             THEN Some(lastResp.text)
             ELSE IF Usable(ocr, trimmed) THEN Some(ocr) ELSE None
        /\ allTexts = ContributedFrom(1)

FileOfChar(c) ==
  IF c \in {"a", "p"} THEN 1
  ELSE IF c \in {"b", "q"} THEN 2
  ELSE IF c \in {"c", "r"} THEN 3
  ELSE IF c \in {"d", "s"} THEN 4
  ELSE 0

IsFileNumber(n) == n # 0

\* the files the non-whitespace characters of a text stem from, in order
FilesAlong(text) ==
  SelectSeq([k \in 1..Len(text) |-> FileOfChar(text[k])], IsFileNumber)

\* blank-line join, written out
RECURSIVE BlankLineJoin(_)
BlankLineJoin(texts) ==
  IF texts = <<>> THEN <<>>
  ELSE IF Len(texts) = 1 THEN texts[1]
  ELSE texts[1] \o <<"\n", "\n">> \o BlankLineJoin(Tail(texts))

\* C8: the text passed to generation is the blank-line join of the
\* non-empty per-file contributions in submission order, each contributing
\* file appearing exactly once; when no file contributes, the request
\* fails with InvalidArgument and generation is not called.
C8_CombinedText ==
  /\ \A k \in LogOps({"generate"}) :
       LET text == callLog[k].arg
           along == FilesAlong(text)
       IN  /\ Processed = 1..Len(files)
           /\ text = BlankLineJoin(ContributedFrom(1))
           /\ \A i \in Contributors : NonBlank(contribution[i].text)
           /\ \A p \in 1..(Len(along) - 1) : along[p] <= along[p + 1]
           /\ {along[p] : p \in 1..Len(along)} = Contributors
  /\ (pc \notin {"entry", "upload", "download", "extract", "process"}
        /\ Processed = 1..Len(files) /\ Contributors = {} /\ files # <<>>) =>
       /\ outcome.kind = "error" /\ outcome.code = "invalid-argument"
       /\ outcome.message =
            <<"No text could be extracted from the provided files">>
       /\ LogOps({"generate"}) = {}

C8_Witness ==
  /\ LogOps({"generate"}) # {}
  /\ Contributors = {1, 2}
  /\ contribution[1].text[1] = "p"
  /\ contribution[2].text[1] = "b"

C8_WitnessEmpty ==
  /\ pc = "done" /\ Processed = {1, 2} /\ Contributors = {}
  /\ outcome.code = "invalid-argument"

StageRank(op) ==
  IF op = "upload" THEN 1
  ELSE IF op = "download" THEN 2
  ELSE IF op = "ocr" THEN 3
  ELSE IF op = "diagram" THEN 4
  ELSE IF op = "generate" THEN 5
  ELSE 6

\* C9: at most one external call is in flight at any time, and the calls
\* follow the stage order upload, download, OCR, diagram understanding,
\* generation, with a single generation call after all the others.
C9_SequentialStages ==
  /\ Cardinality(inflight) <= 1
  /\ \A p, q \in 1..Len(callLog) :
       p < q => StageRank(callLog[p].op) <= StageRank(callLog[q].op)
  /\ Cardinality(LogOps({"generate"})) <= 1
  /\ \A c \in inflight : callLog # <<>> /\ callLog[Len(callLog)] = c

C9_Witness ==
  /\ pc = "generate" /\ inflight # {}
  /\ Cardinality(LogOps({"upload"})) = 2
  /\ Cardinality(LogOps({"ocr"})) = 2
  /\ Cardinality(LogOps({"diagram"})) = 2

(***************************************************************************)
(* Properties of the validation                                            *)
(***************************************************************************)
\* the validation rules of a file, with the base64 rule read as given
\* (strict: every character is a base64 character) or after trimming
FileWellFormed(f, strict) ==
  /\ f.name # ""
  /\ f.type \in {"pdf", "image"}
  /\ f.base64.core > 0 /\ ~f.base64.bad
  /\ strict => (f.base64.lead = 0 /\ f.base64.trail = 0)
  /\ 3 * (f.base64.lead + f.base64.core + f.base64.trail)
       <= 4 * (24 * 1024 * 1024)

RequestWellFormed(d, strict) ==
  /\ d.files # <<>>
  /\ d.selectionType \in {"flashcard", "quiz"}
  /\ d.numberOfItems > 0
  /\ d.selectionType = "quiz" => d.quizQuestionTypes # <<>>
  /\ \A k \in 1..Len(d.files) : FileWellFormed(d.files[k], strict)

C10_Validation(strict) ==
  (request.auth /\ pc # "entry") =>
    /\ RequestWellFormed(request.data, strict) <=>
         (outcome.code # "invalid-argument")
    /\ RequestWellFormed(request.data, strict) =>
         (pc = "upload" \/ outcome.code = "failed-precondition")
    /\ ~RequestWellFormed(request.data, strict) =>
         (pc = "done" /\ outcome.kind = "error")

\* C10, with the base64 rule read literally: validation passes exactly when files is non-empty,
\* selectionType is flashcard or quiz, numberOfItems > 0, quizQuestionTypes
\* is non-empty for a quiz, and every file has a name, a type of pdf or
\* image, base64 made only of base64 characters and an estimated size
\* (length x 3/4) of at most 24 x 1024 x 1024; otherwise InvalidArgument.
C10_Validation_Original == C10_Validation(TRUE)

\* C10: the same, with the base64 rule applied to the payload
\* after its leading and trailing whitespace is trimmed (the size estimate
\* still uses the untrimmed length).
C10_ValidationTrimmed == C10_Validation(FALSE)

C10_Witness ==
  /\ request.auth /\ pc = "upload"
  /\ Len(files) = 2
  /\ files[1].base64.lead = 1 /\ files[1].base64.trail = 1
  /\ 3 * files[2].base64.core = 4 * (24 * 1024 * 1024)

(***************************************************************************)
(* Properties of the cleanup of processNotes                               *)
(***************************************************************************)
\* C16: when generation has succeeded, the deletion of every downloaded
\* temp file and of every uploaded artifact is attempted, and no failing
\* deletion changes the outcome: the request returns success with the
\* generated data, and the files after a failing one are still cleaned up.
C16_CleanupNeverEscalates ==
  /\ (pc \in {"cleanup", "done"} /\ result # NoData) =>
       outcome.kind # "error"
  /\ outcome.kind = "success" =>
       /\ outcome.data = result
       /\ \A k \in 1..Len(uploadedFileUrls) :
            InLog(Call("delete", uploadedFileUrls[k]))
       /\ \A k \in 1..Len(downloadedFiles) :
            InLog(Call("unlink", downloadedFiles[k].filePath))

\* both deletions of the first file failed, the second file is gone
C16_Witness ==
  /\ outcome.kind = "success"
  /\ Len(uploadedFileUrls) = 2
  /\ storage = {uploadedFileUrls[1]}
  /\ tempFiles = {downloadedFiles[1].filePath}

(***************************************************************************)
(* Properties of splitPdfIntoChunks                                        *)
(***************************************************************************)
PagesOf(chunk) == chunk.endPage - chunk.startPage

RECURSIVE TotalPages(_)
TotalPages(chunks) ==
  IF chunks = <<>> THEN 0
  ELSE PagesOf(Head(chunks)) + TotalPages(Tail(chunks))

PageLimitViolation(answer) ==
  answer.threw /\ answer.error.code = 3 /\ answer.error.page
    /\ answer.error.limit

\* the texts of the answered calls that succeeded, in call order
RECURSIVE SucceededTexts(_)
SucceededTexts(answers) ==
  IF answers = <<>> THEN <<>>
  ELSE IF Head(answers).threw THEN SucceededTexts(Tail(answers))
  ELSE <<Head(answers).text>> \o SucceededTexts(Tail(answers))

\* the extraction has ended for a PDF that was split into chunks
ChunkedDone ==
  /\ extract.pc = "done"
  /\ extract.mimeType = "application/pdf"
  /\ extract.pageCount > 15
  /\ extract.chunks # <<>>

UnsplitPageLimit ==
  /\ extract.pc = "done"
  /\ extract.mimeType = "application/pdf"
  /\ Len(extract.answers) >= 1
  /\ extract.calls[1].target = 0
  /\ PageLimitViolation(extract.answers[1])

\* C13: when the OCR call fails with a page-limit error on a PDF that was
\* not split, the extraction is retried exactly once on chunks (OCR is
\* called again, chunk by chunk), and a failure of that retry ends the
\* extraction with an error.
C13_RetryOnceWithChunking ==
  UnsplitPageLimit =>
    /\ \E k \in 2..Len(extract.calls) :
         extract.calls[k].mode = "retry" /\ extract.calls[k].target >= 1
    /\ \A k \in 2..Len(extract.calls) : extract.calls[k].mode = "retry"
    /\ (\E k \in 2..Len(extract.answers) : extract.answers[k].threw)
         => extract.outcome.kind = "error"

(***************************************************************************)
(* Properties of the response parser                                       *)
(***************************************************************************)
\* the text between an opening fence (with or without the json tag) and
\* the closing fence, or the whole text when it opens with no fence
Unfenced(text) ==
  LET t == Trim(text)
      opened == t # <<>> /\ t[1] = Fence
      from == IF ~opened THEN 1
              ELSE IF Len(t) >= 2 /\ t[2] = "json" THEN 3 ELSE 2
      to == IF opened /\ Len(t) >= from /\ t[Len(t)] = Fence
            THEN Len(t) - 1 ELSE Len(t)
  IN  SubSeq(t, from, to)

\* without its fence the response is one well-formed JSON document
ParsesAsDocument(r) ==
  /\ r.parses
  /\ LET u == Unfenced(r.text)
     IN  /\ \A k \in 1..Len(u) : u[k] \in {" ", "\n", "{}"}
         /\ Cardinality({j \in 1..Len(u) : u[j] = "{}"}) = 1

TextValue(x) == x.kind = "string" /\ x.s # ""

FlashcardSchema(r) ==
  /\ TextValue(r.title)
  /\ r.cards.kind = "list"
  /\ \A k \in 1..Len(r.cards.items) :
       /\ r.cards.items[k].kind = "object"
       /\ TextValue(r.cards.items[k].question)
       /\ TextValue(r.cards.items[k].answer)

TagsOrEmpty(r) == IF r.tags.kind = "list" THEN r.tags ELSE ListOf(<<>>)

C14_WitnessAccepted ==
  /\ Evaluated("parseFlashcardResponse")
  /\ eval.out.ok
  /\ eval.arg.tags = Absent /\ eval.out.value.tags = ListOf(<<>>)
  /\ eval.arg.text # Body

QuizSchema(r) ==
  /\ TextValue(r.title)
  /\ r.questionsList.kind = "list"
  /\ \A k \in 1..Len(r.questionsList.items) :
       LET q == r.questionsList.items[k]
       IN  /\ q.kind = "object"
           /\ q.type \in {Str("multiple-choice"), Str("multiple-selection"),
                          Str("fill-in-the-blank")}
           /\ TextValue(q.question)
           /\ q.answer # Absent /\ q.answer # JsonNull
           /\ q.type \in {Str("multiple-choice"), Str("multiple-selection")}
                => q.options.kind = "list" /\ Len(q.options.items) >= 2
           /\ q.type = Str("multiple-selection") => q.answer.kind = "list"

\* C15: a quiz response is accepted exactly when its title is a non-empty
\* string, questionsList is a list and every question has one of the three
\* types, a non-empty string question, an answer that is neither null nor
\* undefined, at least two options when it is multiple-choice or
\* multiple-selection, and a list for its answer when it is
\* multiple-selection; anything else rejects the whole response.
C15_QuizSchema ==
  Evaluated("parseQuizResponse") =>
    LET r == eval.arg
    IN  /\ eval.out.ok <=> (ParsesAsDocument(r) /\ QuizSchema(r))
        /\ ~eval.out.ok => eval.out.value = NoData

C15_Witness ==
  /\ Evaluated("parseQuizResponse")
  /\ eval.arg.parses /\ eval.arg.text = Body /\ eval.arg.title = Str("T")
  /\ eval.arg.questionsList =
       ListOf(<<SampleQuestion,
                JsonQuestion("object", Str("multiple-selection"), Str("Q"),
                             Str("A"), ListOf(<<Str("A"), Str("B")>>))>>)
  /\ ~eval.out.ok


(***************************************************************************)
(* Properties of fuzzyMatch                                                *)
(***************************************************************************)
\* the normal form of an answer: trimmed, lowercased, punctuation removed,
\* whitespace runs collapsed, in this order
NormalForm(str) ==
  CollapseWhitespace(RemovePunctuation(ToLowerCase(Trim(str))))

\* what is left of an answer when case, punctuation and the amount of
\* whitespace are disregarded: its lowercased words, one space apart
Skeleton(str) ==
  Trim(CollapseWhitespace(RemovePunctuation(ToLowerCase(str))))

\* two answers that differ only in case, punctuation or whitespace
IsVariant(variant, str) == Skeleton(variant) = Skeleton(str)

CloseEnough(a, b) ==
  \/ a = b
  \/ Includes(a, b)
  \/ Includes(b, a)
  \/ levenshteinDistance(a, b) <= Max(2, Max(Len(a), Len(b)) \div 10)

FuzzyNonEmpty ==
  /\ Evaluated("fuzzyMatch")
  /\ eval.arg.userAnswer # <<>>
  /\ eval.arg.correctAnswer # <<>>

C17_WitnessTenth ==
  /\ FuzzyNonEmpty
  /\ levenshteinDistance(NormalForm(eval.arg.userAnswer),
                         NormalForm(eval.arg.correctAnswer)) = 3
  /\ eval.out.match
  /\ ~Includes(NormalForm(eval.arg.userAnswer),
               NormalForm(eval.arg.correctAnswer))
  /\ ~Includes(NormalForm(eval.arg.correctAnswer),
               NormalForm(eval.arg.userAnswer))

C17_WitnessMiss ==
  /\ FuzzyNonEmpty
  /\ Len(eval.arg.userAnswer) > 20
  /\ ~eval.out.match

(***************************************************************************)
(* Properties of checkAnswer and calculateQuizScore                        *)
(***************************************************************************)
IsEmptyAnswer(a) == a.kind = "string" /\ a.text = <<>>

\* a fill-in-the-blank question whose given or expected answer is empty
HasEmptyAnswer(question) ==
  /\ question.type = "fill-in-the-blank"
  /\ IsEmptyAnswer(question.currentAnswer) \/ IsEmptyAnswer(question.answer)

EmptyAnswered(questionsList) ==
  {k \in 1..Len(questionsList) : HasEmptyAnswer(questionsList[k])}

\* the whole percentage nearest to count out of total, halves going up
NearestPercent(count, total) ==
  CHOOSE r \in 0..100 :
    /\ 2 * total * r <= 200 * count + total
    /\ 200 * count + total < 2 * total * (r + 1)

\* C18: fuzzyMatch is false whenever the user answer or the correct answer
\* is empty, so a fill-in-the-blank question with an empty answer is never
\* counted correct, neither by checkAnswer nor in the score of
\* calculateQuizScore.
C18_EmptyNeverCorrect ==
  /\ Evaluated("fuzzyMatch")
       /\ (eval.arg.userAnswer = <<>> \/ eval.arg.correctAnswer = <<>>)
       => ~eval.out.match
  /\ Evaluated("checkAnswer")
       /\ HasEmptyAnswer(QuizQuestion(eval.arg.questionType,
                                      eval.arg.correctAnswer,
                                      eval.arg.userAnswer))
       => ~eval.out.match
  /\ Evaluated("calculateQuizScore") /\ eval.arg.questionsList # <<>>
       => LET total == Len(eval.arg.questionsList)
              empty == Cardinality(EmptyAnswered(eval.arg.questionsList))
          IN  eval.out.score <= NearestPercent(total - empty, total)

\* a quiz scored with two questions right and one left empty, and nothing
\* else wrong, so that the empty one alone keeps the score down
C18_Witness ==
  /\ Evaluated("calculateQuizScore")
  /\ Len(eval.arg.questionsList) = 3
  /\ Cardinality(EmptyAnswered(eval.arg.questionsList)) = 1
  /\ \E k \in EmptyAnswered(eval.arg.questionsList) :
       /\ IsEmptyAnswer(eval.arg.questionsList[k].currentAnswer)
       /\ IsEmptyAnswer(eval.arg.questionsList[k].answer)
  /\ eval.out.score = 67

C18_WitnessCheck ==
  /\ Evaluated("checkAnswer")
  /\ eval.arg.questionType = "fill-in-the-blank"
  /\ IsEmptyAnswer(eval.arg.userAnswer)
  /\ IsEmptyAnswer(eval.arg.correctAnswer)
  /\ ~eval.out.match

C18_WitnessFuzzy ==
  /\ Evaluated("fuzzyMatch")
  /\ eval.arg.userAnswer = <<>>
  /\ eval.arg.correctAnswer = <<>>
  /\ ~eval.out.match

(***************************************************************************)
(* Properties of checkAnswer on multiple-selection questions               *)
(***************************************************************************)
Occurrences(option, list) ==
  Cardinality({k \in 1..Len(list) : list[k] = option})

\* two lists that are equal once sorted: the same elements, each as often
SameSorted(list1, list2) ==
  \A option \in Options :
    Occurrences(option, list1) = Occurrences(option, list2)

\* the lists that hold the elements of a list in some order
Reorderings(list) ==
  {other \in [1..Len(list) -> Options] : SameSorted(other, list)}

MultipleSelection ==
  /\ Evaluated("checkAnswer")
  /\ eval.arg.questionType = "multiple-selection"

\* C19: for multiple-selection questions checkAnswer is true exactly when
\* both answers are lists of equal length that are equal after sorting; the
\* result does not change when either list is reordered, nor when the two
\* answers are exchanged, and lists of different length never match.
C19_MultipleSelection ==
  MultipleSelection =>
    LET user == eval.arg.userAnswer
        correct == eval.arg.correctAnswer
    IN  /\ eval.out.match
             <=> /\ user.kind = "array"
                 /\ correct.kind = "array"
                 /\ Len(user.items) = Len(correct.items)
                 /\ SameSorted(user.items, correct.items)
        /\ eval.out.match = checkAnswer(correct, user, "multiple-selection")
        /\ user.kind = "array" /\ correct.kind = "array"
             => /\ \A u \in Reorderings(user.items),
                      c \in Reorderings(correct.items) :
                      checkAnswer(ListAnswer(u), ListAnswer(c),
                                  "multiple-selection") = eval.out.match
                /\ Len(user.items) # Len(correct.items) => ~eval.out.match

\* three selections given in another order than expected
C19_Witness ==
  /\ MultipleSelection
  /\ Len(eval.arg.userAnswer.items) = 3
  /\ Len(eval.arg.correctAnswer.items) = 3
  /\ \A k \in 1..3 :
       eval.arg.userAnswer.items[k] # eval.arg.correctAnswer.items[k]
  /\ eval.out.match

\* the same options selected, one of them repeated differently
C19_WitnessMiss ==
  /\ MultipleSelection
  /\ Len(eval.arg.userAnswer.items) = Len(eval.arg.correctAnswer.items)
  /\ {eval.arg.userAnswer.items[k] : k \in 1..Len(eval.arg.userAnswer.items)}
       = {eval.arg.correctAnswer.items[k] :
            k \in 1..Len(eval.arg.correctAnswer.items)}
  /\ ~eval.out.match

(***************************************************************************)
(* Properties of updateCardConfidence                                      *)
(***************************************************************************)
ConfidenceLevels == 0..5

\* C20: for every level in 0..5 a correct answer gives min(5, level + 1)
\* and a wrong one max(0, level - 1); the result is in 0..5, staying at 5
\* and at 0 where a step would leave the range.
C20_ConfidenceSaturates ==
  Evaluated("updateCardConfidence")
    /\ eval.arg.currentLevel \in ConfidenceLevels
    => LET level == eval.arg.currentLevel
           up == IF level + 1 <= 5 THEN level + 1 ELSE 5
           down == IF level - 1 >= 0 THEN level - 1 ELSE 0
       IN  /\ eval.out.level = IF eval.arg.isCorrect THEN up ELSE down
           /\ eval.out.level \in ConfidenceLevels
           /\ level = 5 /\ eval.arg.isCorrect => eval.out.level = 5
           /\ level = 0 /\ ~eval.arg.isCorrect => eval.out.level = 0

C20_Witness ==
  /\ Evaluated("updateCardConfidence")
  /\ eval.arg.currentLevel = 5
  /\ eval.arg.isCorrect
  /\ eval.out.level = 5

C20_WitnessFloor ==
  /\ Evaluated("updateCardConfidence")
  /\ eval.arg.currentLevel = 0
  /\ ~eval.arg.isCorrect
  /\ eval.out.level = 0

(***************************************************************************)
(* Properties of calculateSessionStats and calculateQuizScore              *)
(***************************************************************************)
KnownResults(list) ==
  {k \in 1..Len(list) : list[k].wasCorrect \/ list[k].newConfidence = 5}

CorrectResults(list) == {k \in 1..Len(list) : list[k].wasCorrect}

\* C21: for every list of session results, know is the number of results
\* with wasCorrect or newConfidence = 5, learning the number of the others,
\* and accuracy the nearest whole percentage of the results with wasCorrect
\* among all of them; an empty list gives all zeros.
C21_SessionStats ==
  Evaluated("calculateSessionStats") =>
    LET list == eval.arg.sessionResults
    IN  IF list = <<>>
        THEN eval.out = [know |-> 0, learning |-> 0, accuracy |-> 0]
        ELSE /\ eval.out.know = Cardinality(KnownResults(list))
             /\ eval.out.learning = Len(list) - Cardinality(KnownResults(list))
             /\ eval.out.accuracy
                  = NearestPercent(Cardinality(CorrectResults(list)), Len(list))

\* the part of C21 on know and learning, which the code meets
C21_KnowAndLearning ==
  Evaluated("calculateSessionStats") =>
    LET list == eval.arg.sessionResults
    IN  /\ eval.out.know = Cardinality(KnownResults(list))
        /\ eval.out.learning = Len(list) - Cardinality(KnownResults(list))

\* a wrong answer on a card recorded at confidence 5 raises the accuracy
C21_AccuracyCountsConfidence ==
  ~ /\ Evaluated("calculateSessionStats")
    /\ Len(eval.arg.sessionResults) = 1
    /\ ~eval.arg.sessionResults[1].wasCorrect
    /\ eval.arg.sessionResults[1].newConfidence = 5
    /\ eval.out.accuracy = 100

CorrectQuestions(list) ==
  {k \in 1..Len(list) :
     checkAnswer(list[k].currentAnswer, list[k].answer, list[k].type)}

\* C22: calculateQuizScore is the nearest whole percentage of the questions
\* that checkAnswer accepts among all questions, 0 for a quiz without
\* questions, and always an integer in 0..100; three right of four give 75.
C22_QuizScore ==
  Evaluated("calculateQuizScore") =>
    LET list == eval.arg.questionsList
        right == Cardinality(CorrectQuestions(list))
    IN  /\ eval.out.score \in 0..100
        /\ list = <<>> => eval.out.score = 0
        /\ list # <<>> => eval.out.score = NearestPercent(right, Len(list))
        /\ Len(list) = 4 /\ right = 3 => eval.out.score = 75

\* the parts of C22 that do not depend on how a half is rounded
C22_ScoreWithinOne ==
  Evaluated("calculateQuizScore") =>
    LET list == eval.arg.questionsList
        right == Cardinality(CorrectQuestions(list))
    IN  /\ eval.out.score \in 0..100
        /\ list = <<>> => eval.out.score = 0
        /\ list # <<>> =>
             /\ eval.out.score <= NearestPercent(right, Len(list))
             /\ eval.out.score >= NearestPercent(right, Len(list)) - 1
        /\ Len(list) = 4 /\ right = 3 => eval.out.score = 75

\* 23 right of 40 score 57; 57.5 rounds to 58
C22_HalfRoundsDown ==
  ~ /\ Evaluated("calculateQuizScore")
    /\ Len(eval.arg.questionsList) = 40
    /\ Cardinality(CorrectQuestions(eval.arg.questionsList)) = 23
    /\ eval.out.score = 57

(***************************************************************************)
(* fuzzyMatch on answers without a word character                          *)
(***************************************************************************)
\* an answer made of whitespace and punctuation only
IsBlankAnswer(str) == \A k \in 1..Len(str) : str[k] \notin LowerLetters \cup UpperLetters

HasWord(str) == \E k \in 1..Len(str) : str[k] \in LowerLetters \cup UpperLetters

\* C30: fuzzyMatch is false whenever the user answer normalizes to the empty
\* string (it holds only whitespace and punctuation) and the correct answer
\* normalizes to a non-empty string.
C30_BlankNeverMatches ==
  Evaluated("fuzzyMatch")
    /\ IsBlankAnswer(eval.arg.userAnswer)
    /\ HasWord(eval.arg.correctAnswer)
    => ~eval.out.match

\* the empty string itself never matches
C30_EmptyNeverMatches ==
  Evaluated("fuzzyMatch")
    /\ eval.arg.userAnswer = <<>>
    /\ HasWord(eval.arg.correctAnswer)
    => ~eval.out.match

\* a single space is taken for a right answer
C30_SpaceMatches ==
  ~ /\ Evaluated("fuzzyMatch")
    /\ eval.arg.userAnswer = <<" ">>
    /\ eval.arg.correctAnswer = <<"a", "b">>
    /\ eval.out.match

(***************************************************************************)
(* Properties of a suppressed save                                         *)
(***************************************************************************)
\* a save that has returned after its transaction queued no write although
\* the user document existed
Suppressed(c) ==
  /\ IsSave(c)
  /\ clients[c].pc = "done"
  /\ clients[c].snap.exists
  /\ clients[c].pending = NoDoc

SameKindBefore(c) ==
  LET list == ListOfKind(clients[c].task.op, clients[c].snap)
  IN  {list[k] : k \in 1..Len(list)}

\* C25: when a save is suppressed as a duplicate, the entity returned is a
\* pre-existing entity of the same kind with the same title, the same item
\* count and a creation timestamp less than 5000 ms from the new one's.
C25_SuppressedReturnsDuplicate ==
  \A c \in Clients :
    Suppressed(c) =>
      LET op == clients[c].task.op
          new == EntityFor(clients[c].task, clients[c].now)
          returned == clients[c].saved
      IN  /\ returned \in SameKindBefore(c)
          /\ returned.title = new.title
          /\ ItemCount(op, returned) = ItemCount(op, new)
          /\ Abs(returned.creationDate - new.creationDate) < 5000

\* the part of C25 that the code meets: the entity returned existed before,
\* with the title and within the window
C25_ReturnsEarlierOfTitle ==
  \A c \in Clients :
    Suppressed(c) =>
      LET new == EntityFor(clients[c].task, clients[c].now)
          returned == clients[c].saved
      IN  /\ returned \in SameKindBefore(c)
          /\ returned.title = new.title
          /\ Abs(returned.creationDate - new.creationDate) < 5000

\* C25, on the history: the commit of a suppressed save writes nothing
C25_HistoryUnchanged ==
  [][\A c \in Clients :
       (clients[c].pc = "commit" /\ clients'[c].pc = "done"
          /\ clients[c].pending = NoDoc)
         => userDoc' = userDoc]_vars

C25_WrongCountReturned ==
  ~ \E c \in Clients :
      /\ Suppressed(c)
      /\ ItemCount(clients[c].task.op, clients[c].saved)
           # clients[c].task.count

(***************************************************************************)
(* Chunk files after extractTextFromFile                                   *)
(***************************************************************************)
ExtractionOver == extract.pc = "done"

\* C27: whenever extractTextFromFile returns or throws, no chunk file it
\* created remains in the temp directory: when all chunks succeed, when a
\* chunk fails, when splitting fails after some chunks were written, and
\* when the page-limit retry fails.
C27_NoChunkFileRemains ==
  ExtractionOver => extract.chunkFiles = {}

\* the part of C27 that the code meets: once the split has returned its
\* chunks, none of them outlives the call, whatever the chunks' OCR does
C27_CleanAfterCompleteSplit ==
  ExtractionOver /\ extract.pdfChunkPaths # {} => extract.chunkFiles = {}

\* files are left only by a split that threw before any OCR call
C27_LeftOnlyByFailedSplit ==
  ExtractionOver /\ extract.chunkFiles # {} =>
    /\ extract.outcome.kind = "error"
    /\ extract.calls = <<>>
    /\ extract.pdfChunkPaths = {}

C27_ChunkLeftBehind ==
  ~ /\ ExtractionOver
    /\ extract.pageCount = ChunkThreshold + 1
    /\ Cardinality(extract.chunkFiles) = 1

(***************************************************************************)
(* The flashcard set screens: detail screen and review session             *)
(***************************************************************************)
\* the largest generated set, and the operations the clients start in all
MaxCards == 1
MaxOps == 3

\* the value of arithmetic on a missing confidenceLevel
NotANumber == -1

\* a card written without status and confidenceLevel
BareCard(text) == [question |-> text, answer |-> "A"]

LevelOf(card) ==
  IF "confidenceLevel" \in DOMAIN card THEN card.confidenceLevel ELSE NotANumber

StatusFor(newConfidence) ==
  IF newConfidence = MaxConfidence THEN "complete" ELSE "review"

WithLevel(card, newConfidence) ==
  [question |-> card.question, answer |-> card.answer,
   status |-> StatusFor(newConfidence), confidenceLevel |-> newConfidence]

ConfidenceAfter(level, isCorrect) ==
  IF level = NotANumber THEN NotANumber
  ELSE updateCardConfidence(level, isCorrect)

\* transformFlashcardData: every generated card starts at level 0, review
transformFlashcardData(count) == [k \in 1..count |-> Card("Q")]

\* a generated set as earlier sessions leave it: each card still at level 0
\* or one right answer short of mastered
StudiedSets(count) ==
  {[k \in 1..count |->
      WithLevel(transformFlashcardData(count)[k], levels[k])] :
     levels \in [1..count -> {MinConfidence, MaxConfidence - 1}]}

StudyResult(cardIndex, wasCorrect, previousConfidence, newConfidence) ==
  [cardIndex |-> cardIndex, wasCorrect |-> wasCorrect,
   previousConfidence |-> previousConfidence, newConfidence |-> newConfidence]

StudyScreen(at, local, snap, editing, cardsToStudy, originalIndices,
            currentCardIndex, sessionResults) ==
  [pc |-> at, local |-> local, snap |-> snap, editing |-> editing,
   cardsToStudy |-> cardsToStudy, originalIndices |-> originalIndices,
   currentCardIndex |-> currentCardIndex, sessionResults |-> sessionResults]

ClosedScreen == StudyScreen("closed", <<>>, <<>>, 0, <<>>, <<>>, 0, <<>>)

\* handleResetProgress: every card of the set read goes back to level 0
ResetCards(cards) ==
  [k \in 1..Len(cards) |->
     [question |-> cards[k].question, answer |-> cards[k].answer,
      status |-> "review", confidenceLevel |-> 0]]

\* handleEditCard: cards[editingCardIndex] = {...cards[editingCardIndex],
\* question, answer}; the spread of a missing element adds nothing
EditedCards(cards, index) ==
  IF index <= Len(cards)
  THEN [cards EXCEPT ![index] = [@ EXCEPT !.question = "E"]]
  ELSE Append(cards, BareCard("E"))

\* finishSession: the results are applied in order to the set just read
RECURSIVE ApplyResults(_, _)
ApplyResults(cards, results) ==
  IF results = <<>> THEN cards
  ELSE LET r == Head(results)
           updated ==
             IF r.cardIndex <= Len(cards)
             THEN [cards EXCEPT ![r.cardIndex] = WithLevel(@, r.newConfidence)]
             ELSE cards
       IN  ApplyResults(updated, Tail(results))

NonMastered(cards) ==
  {k \in 1..Len(cards) : LevelOf(cards[k]) /= MaxConfidence}

\* the shuffled non-mastered cards cut to the requested number
Selections(cards) ==
  UNION { {sel \in [1..n -> NonMastered(cards)] :
             \A a, b \in 1..n : a /= b => sel[a] /= sel[b]} :
          n \in 1..Cardinality(NonMastered(cards)) }

\* a step of client c; a handler that starts is counted
StudyStep(c, next) ==
  /\ study' = [study EXCEPT !.ui[c] = next,
                            !.ops = IF study.ui[c].pc = "home" THEN @ + 1 ELSE @]
  /\ UNCHANGED <<pipeVars, storeVars, eval, extract, taking, create>>

StudyWrite(c, cards, next) ==
  /\ study' = [study EXCEPT !.cards = cards, !.ui[c] = next,
                            !.lost = @ \/ study.ui[c].snap /= study.cards]
  /\ UNCHANGED <<pipeVars, storeVars, eval, extract, taking, create>>

\* what a screen keeps once a handler has returned
AtHome(local) ==
  StudyScreen("home", local, <<>>, 0, <<>>, <<>>, 0, <<>>)

\* the detail screen mounts and shows the set it read
FetchFlashcard(c) ==
  /\ study.ui[c].pc = "closed"
  /\ StudyStep(c, AtHome(study.cards))

\* handleResetProgress starts and its getDoc is answered
HandleResetProgressGet(c) ==
  /\ study.ui[c].pc = "home"
  /\ study.ops < MaxOps
  /\ StudyStep(c, [study.ui[c] EXCEPT !.pc = "reset", !.snap = study.cards])

\* its updateDoc is applied and the screen shows what was written
HandleResetProgressUpdate(c) ==
  /\ study.ui[c].pc = "reset"
  /\ LET cards == ResetCards(study.ui[c].snap)
     IN  StudyWrite(c, cards, AtHome(cards))

HandleAddCardGet(c) ==
  /\ study.ui[c].pc = "home"
  /\ study.ops < MaxOps
  /\ Len(study.cards) <= MaxCards
  /\ StudyStep(c, [study.ui[c] EXCEPT !.pc = "add", !.snap = study.cards])

HandleAddCardUpdate(c) ==
  /\ study.ui[c].pc = "add"
  /\ LET cards == Append(study.ui[c].snap, Card("N"))
     IN  StudyWrite(c, cards, AtHome(cards))

\* openEditModal takes the index from the list on screen
HandleEditCardGet(c) ==
  /\ study.ui[c].pc = "home"
  /\ study.ops < MaxOps
  /\ \E index \in 1..Len(study.ui[c].local) :
       StudyStep(c, [study.ui[c] EXCEPT !.pc = "edit", !.snap = study.cards,
                                        !.editing = index])

\* an index more than one past the end leaves a hole, which the write rejects
HandleEditCardUpdate(c) ==
  /\ study.ui[c].pc = "edit"
  /\ study.ui[c].editing <= Len(study.ui[c].snap) + 1
  /\ LET cards == EditedCards(study.ui[c].snap, study.ui[c].editing)
     IN  StudyWrite(c, cards, AtHome(cards))

\* the write is rejected: the handler alerts and nothing changes
StudyUpdateFail(c) ==
  /\ study.ui[c].pc \in {"reset", "add", "edit", "finish"}
  /\ StudyStep(c, AtHome(study.ui[c].local))

\* the session screen mounts: it reads the set and picks the cards to study
StartSession(c) ==
  /\ study.ui[c].pc = "home"
  /\ study.ops < MaxOps
  /\ NonMastered(study.cards) /= {}
  /\ \E sel \in Selections(study.cards) :
       StudyStep(c, [study.ui[c] EXCEPT
                       !.pc = "study",
                       !.cardsToStudy = [k \in 1..Len(sel) |-> study.cards[sel[k]]],
                       !.originalIndices = sel,
                       !.currentCardIndex = 1,
                       !.sessionResults = <<>>])

\* handleAnswer, then moveToNextCard when its timers have run
HandleAnswer(c) ==
  /\ study.ui[c].pc = "study"
  /\ \E isCorrect \in BOOLEAN :
       LET ui == study.ui[c]
           at == ui.currentCardIndex
           previousConfidence == LevelOf(ui.cardsToStudy[at])
           newConfidence == ConfidenceAfter(previousConfidence, isCorrect)
           results == Append(ui.sessionResults,
                        StudyResult(ui.originalIndices[at], isCorrect,
                                    previousConfidence, newConfidence))
       IN  IF at < Len(ui.cardsToStudy)
           THEN StudyStep(c, [ui EXCEPT
                  !.sessionResults = results,
                  !.cardsToStudy[at] = WithLevel(@, newConfidence),
                  !.currentCardIndex = at + 1])
           ELSE StudyStep(c, [ui EXCEPT !.sessionResults = results,
                                        !.pc = "finishing"])

\* finishSession: its getDoc is answered
FinishSessionGet(c) ==
  /\ study.ui[c].pc = "finishing"
  /\ StudyStep(c, [study.ui[c] EXCEPT !.pc = "finish", !.snap = study.cards])

\* finishSession: its updateDoc is applied
FinishSessionUpdate(c) ==
  /\ study.ui[c].pc = "finish"
  /\ StudyWrite(c, ApplyResults(study.ui[c].snap, study.ui[c].sessionResults),
                AtHome(study.ui[c].local))

InitStudy ==
  /\ request = [auth |-> FALSE, data |-> RequestData(<<>>, "", 0, <<>>),
                processorId |-> FALSE]
  /\ InitPipelineLocals
  /\ InitStoreIdle
  /\ eval = NoEval
  /\ extract = NoExtract
  /\ taking = NoTaking
  /\ create = NoCreate
  /\ \E count \in 1..MaxCards :
       \E cards \in StudiedSets(count) :
         study = [cards |-> cards, lost |-> FALSE, ops |-> 0,
                  ui |-> [c \in Clients |-> ClosedScreen]]

NextStudy ==
  \E c \in Clients :
    \/ FetchFlashcard(c)
    \/ HandleResetProgressGet(c)
    \/ HandleResetProgressUpdate(c)
    \/ HandleAddCardGet(c)
    \/ HandleAddCardUpdate(c)
    \/ HandleEditCardGet(c)
    \/ HandleEditCardUpdate(c)
    \/ StudyUpdateFail(c)
    \/ StartSession(c)
    \/ HandleAnswer(c)
    \/ FinishSessionGet(c)
    \/ FinishSessionUpdate(c)

SpecStudy == InitStudy /\ [][NextStudy]_vars

(***************************************************************************)
(* Properties of the confidence level and status of persisted cards        *)
(***************************************************************************)
Consistent(card) ==
  /\ "confidenceLevel" \in DOMAIN card
  /\ "status" \in DOMAIN card
  /\ card.confidenceLevel \in MinConfidence..MaxConfidence
  /\ card.status = "complete" <=> card.confidenceLevel = MaxConfidence

\* C23: after any sequence of review answers, session finishes, progress
\* resets, card additions and card edits on a transformed generated set,
\* every persisted card has a confidenceLevel in 0..5 and the status
\* complete exactly when its confidenceLevel is 5.
C23_LevelAndStatus ==
  study /= NoStudy =>
    \A k \in 1..Len(study.cards) : Consistent(study.cards[k])

\* C23 where no write has replaced a set other than the one it had read.
C23_ConsistentWithoutLostWrite ==
  (study /= NoStudy /\ ~study.lost) =>
    \A k \in 1..Len(study.cards) : Consistent(study.cards[k])

\* a session has brought a card to level 5 and the status complete
C23_MasteredPersisted ==
  /\ study /= NoStudy
  /\ ~study.lost
  /\ \E k \in 1..Len(study.cards) :
       Consistent(study.cards[k]) /\ study.cards[k].status = "complete"

\* an edit has written a card past the end of the set it had read
C23_BareCardPersisted ==
  /\ study /= NoStudy
  /\ \E k \in 1..Len(study.cards) : "status" \notin DOMAIN study.cards[k]


(***************************************************************************)
(* The quiz screens: quiz home, question screen and its saves              *)
(***************************************************************************)
\* the operations the user starts on the quiz
MaxQuizOps == 4

\* a saved quiz as saveQuizToFirestore stores the transformed quiz: one
\* multiple-choice and one fill-in-the-blank question, nothing answered
SavedQuiz ==
  [questionsList |->
     << QuizQuestion("multiple-choice", TextAnswer(<<"a">>), TextAnswer(<<>>)),
        QuizQuestion("fill-in-the-blank", TextAnswer(<<"a">>), TextAnswer(<<>>)) >>,
   isComplete |-> FALSE, score |-> 0, lastQuestionIndex |-> 0,
   bookmarkedQuestions |-> {}]

\* what the user can select or type
NewAnswers == {TextAnswer(<<"a">>), TextAnswer(<<"b">>)}

\* a save in flight: the quiz its handler built when it was called and the
\* screen instance whose state it sets afterwards
QuizSave(kind, quizToSave, instance) ==
  [kind |-> kind, quiz |-> quizToSave, instance |-> instance]

CurrentAnswers(quizState) ==
  [k \in 1..Len(quizState.questionsList) |->
     quizState.questionsList[k].currentAnswer]

\* handleAnswerChange: the copy of the quiz with the new answer
AnsweredQuiz(quizState, at, newAnswer) ==
  [quizState EXCEPT !.questionsList[at].currentAnswer = newAnswer]

\* saveAnswerToFirestore: quizToSave
AnswerToSave(updatedQuiz, at) ==
  [updatedQuiz EXCEPT !.lastQuestionIndex = at - 1]

\* saveNavigationToFirestore: updatedQuiz
NavigationToSave(quizState, newIndex) ==
  [quizState EXCEPT !.lastQuestionIndex = newIndex - 1]

\* toggleBookmark: updatedQuiz
BookmarkToSave(quizState, at) ==
  [quizState EXCEPT !.bookmarkedQuestions =
     IF (at - 1) \in @ THEN @ \ {at - 1} ELSE @ \cup {at - 1}]

\* submitQuiz: updatedQuiz
SubmissionToSave(quizState) ==
  [quizState EXCEPT !.isComplete = TRUE,
                    !.score = calculateQuizScore(quizState),
                    !.lastQuestionIndex = Len(quizState.questionsList) - 1]

\* handleRetakeQuiz: updatedQuiz, built from the quiz just read
RetakeToSave(quizState) ==
  [quizState EXCEPT
     !.isComplete = FALSE, !.score = 0, !.lastQuestionIndex = 0,
     !.questionsList =
        [k \in 1..Len(quizState.questionsList) |->
           [quizState.questionsList[k] EXCEPT
              !.currentAnswer =
                 IF quizState.questionsList[k].type = "multiple-selection"
                 THEN ListAnswer(<<>>) ELSE TextAnswer(<<>>)]]]

Without(list, at) ==
  [k \in 1..(Len(list) - 1) |-> IF k < at THEN list[k] ELSE list[k + 1]]

TakingFrame == UNCHANGED <<pipeVars, storeVars, eval, extract, study, create>>

\* a save is still in flight
SaveInFlight == taking.reads /= <<>> \/ taking.writes /= <<>>

\* the question screen mounts and fetchQuiz shows the persisted quiz
Mounted(state, at) ==
  [state EXCEPT !.screen = "question", !.local = state.persisted,
                !.currentQuestionIndex = at, !.saving = FALSE,
                !.instance = @ + 1, !.latest = CurrentAnswers(state.persisted),
                !.onlyAnswers = state.reads = <<>> /\ state.writes = <<>>,
                !.overlapped = FALSE]

IsUnanswered(question) ==
  IF question.currentAnswer.kind = "array"
  THEN question.currentAnswer.items = <<>>
  ELSE Trim(question.currentAnswer.text) = <<>>

\* findFirstUnansweredQuestion, as a position in the list
FirstUnanswered(quizState) ==
  LET open == {k \in 1..Len(quizState.questionsList) :
                 IsUnanswered(quizState.questionsList[k])}
  IN  IF open /= {} THEN CHOOSE k \in open : \A other \in open : k <= other
      ELSE quizState.lastQuestionIndex + 1

\* handleStartQuiz or handleContinueQuiz, offered while the quiz that the
\* quiz home shows is not complete
OpenQuiz ==
  /\ taking.screen = "home"
  /\ taking.ops < MaxQuizOps
  /\ ~taking.home.isComplete
  /\ LET at == IF \A k \in 1..Len(taking.home.questionsList) :
                     IsUnanswered(taking.home.questionsList[k])
               THEN 1 ELSE FirstUnanswered(taking.home)
     IN  taking' = [Mounted(taking, at) EXCEPT !.ops = @ + 1]
  /\ TakingFrame

\* handleAnswerChange: the screen shows the answer and a save starts
HandleAnswerChange ==
  /\ taking.screen = "question"
  /\ taking.ops < MaxQuizOps
  /\ \E newAnswer \in NewAnswers :
       LET at == taking.currentQuestionIndex
           updatedQuiz == AnsweredQuiz(taking.local, at, newAnswer)
       IN  taking' = [taking EXCEPT
             !.local = updatedQuiz,
             !.saving = TRUE,
             !.reads = Append(@, QuizSave("answer", AnswerToSave(updatedQuiz, at),
                                          taking.instance)),
             !.latest[at] = newAnswer,
             !.overlapped = @ \/ SaveInFlight,
             !.ops = @ + 1]
  /\ TakingFrame

\* updateQuestionIndex after the slide to a neighbouring question
UpdateQuestionIndex ==
  /\ taking.screen = "question"
  /\ taking.ops < MaxQuizOps
  /\ \E newIndex \in 1..Len(taking.local.questionsList) :
       /\ newIndex \in {taking.currentQuestionIndex - 1,
                        taking.currentQuestionIndex + 1}
       /\ taking' = [taking EXCEPT
            !.currentQuestionIndex = newIndex,
            !.reads = Append(@, QuizSave("navigation",
                                  NavigationToSave(taking.local, newIndex),
                                  taking.instance)),
            !.overlapped = @ \/ SaveInFlight,
            !.ops = @ + 1]
  /\ TakingFrame

\* toggleBookmark; its button is disabled while saving is set
ToggleBookmark ==
  /\ taking.screen = "question"
  /\ taking.ops < MaxQuizOps
  /\ ~taking.saving
  /\ taking' = [taking EXCEPT
       !.saving = TRUE,
       !.onlyAnswers = FALSE,
       !.reads = Append(@, QuizSave("bookmark",
                             BookmarkToSave(taking.local,
                                            taking.currentQuestionIndex),
                             taking.instance)),
       !.ops = @ + 1]
  /\ TakingFrame

\* handleSubmit and submitQuiz; the button is disabled while saving is set
SubmitQuiz ==
  /\ taking.screen = "question"
  /\ taking.ops < MaxQuizOps
  /\ ~taking.saving
  /\ taking' = [taking EXCEPT
       !.saving = TRUE,
       !.onlyAnswers = FALSE,
       !.reads = Append(@, QuizSave("submit", SubmissionToSave(taking.local),
                                    taking.instance)),
       !.ops = @ + 1]
  /\ TakingFrame

\* handleRetakeQuiz, offered while the quiz that the quiz home shows is
\* complete, and confirmed
HandleRetakeQuiz ==
  /\ taking.screen = "home"
  /\ taking.ops < MaxQuizOps
  /\ taking.home.isComplete
  /\ taking' = [taking EXCEPT
       !.screen = "resetting",
       !.onlyAnswers = FALSE,
       !.reads = Append(@, QuizSave("retake", taking.persisted, taking.instance)),
       !.ops = @ + 1]
  /\ TakingFrame

\* a getDoc is answered, in any order, and its handler calls updateDoc;
\* only the retake builds what it writes from the document read
GetDocAnswered ==
  /\ \E k \in 1..Len(taking.reads) :
       LET save == taking.reads[k]
           write == IF save.kind = "retake"
                    THEN QuizSave("retake", RetakeToSave(taking.persisted),
                                  save.instance)
                    ELSE save
       IN  taking' = [taking EXCEPT !.reads = Without(@, k),
                                    !.writes = Append(@, write)]
  /\ TakingFrame

\* what the handler does when its updateDoc has returned
AfterWrite(state, save, written) ==
  IF save.kind = "retake"
  THEN IF written THEN Mounted([state EXCEPT !.home = save.quiz], 1)
       ELSE [state EXCEPT !.screen = "home"]
  ELSE IF save.instance /= state.instance THEN state
  ELSE [state EXCEPT
          !.local = IF written /\ save.kind /= "submit" THEN save.quiz ELSE @,
          !.saving = IF save.kind = "navigation" THEN @ ELSE FALSE,
          !.screen = IF written /\ save.kind = "submit" /\ @ = "question"
                     THEN "results" ELSE @]

\* the oldest updateDoc is applied
UpdateDocApplied ==
  /\ taking.writes /= <<>>
  /\ LET save == Head(taking.writes)
         written == [taking EXCEPT
                       !.persisted = save.quiz,
                       !.writes = Tail(@),
                       !.submitted = IF save.kind = "submit" THEN TRUE
                                     ELSE IF save.kind = "retake" THEN FALSE
                                     ELSE @]
     IN  taking' = AfterWrite(written, save, TRUE)
  /\ TakingFrame

\* the oldest updateDoc is rejected: the handler alerts or logs
UpdateDocRejected ==
  /\ taking.writes /= <<>>
  /\ LET save == Head(taking.writes)
         dropped == [taking EXCEPT !.writes = Tail(@), !.onlyAnswers = FALSE]
     IN  taking' = AfterWrite(dropped, save, FALSE)
  /\ TakingFrame

\* Return to Quiz Home on the results screen: a quiz home mounts and reads
ReturnToQuizHome ==
  /\ taking.screen = "results"
  /\ taking' = [taking EXCEPT !.screen = "home", !.home = taking.persisted]
  /\ TakingFrame

InitTaking ==
  /\ request = [auth |-> FALSE, data |-> RequestData(<<>>, "", 0, <<>>),
                processorId |-> FALSE]
  /\ InitPipelineLocals
  /\ InitStoreIdle
  /\ eval = NoEval
  /\ extract = NoExtract
  /\ study = NoStudy
  /\ create = NoCreate
  /\ taking = [persisted |-> SavedQuiz, home |-> SavedQuiz,
               local |-> SavedQuiz, screen |-> "home",
               currentQuestionIndex |-> 1, saving |-> FALSE, instance |-> 0,
               reads |-> <<>>, writes |-> <<>>,
               latest |-> CurrentAnswers(SavedQuiz), onlyAnswers |-> TRUE,
               overlapped |-> FALSE, submitted |-> FALSE, ops |-> 0]

NextTaking ==
  \/ OpenQuiz
  \/ HandleAnswerChange
  \/ UpdateQuestionIndex
  \/ ToggleBookmark
  \/ SubmitQuiz
  \/ HandleRetakeQuiz
  \/ GetDocAnswered
  \/ UpdateDocApplied
  \/ UpdateDocRejected
  \/ ReturnToQuizHome

SpecTaking == InitTaking /\ [][NextTaking]_vars

(***************************************************************************)
(* Properties of a submitted quiz                                          *)
(***************************************************************************)
\* the step applies the write of a retake
RetakeApplied ==
  /\ taking.writes /= <<>>
  /\ Head(taking.writes).kind = "retake"
  /\ taking'.persisted = Head(taking.writes).quiz

\* the step applies the write of submitQuiz
SubmitApplied ==
  /\ taking.writes /= <<>>
  /\ Head(taking.writes).kind = "submit"
  /\ taking'.persisted = Head(taking.writes).quiz

\* C24: once submitQuiz has persisted the quiz with isComplete = true and the
\* score calculateQuizScore gives for the answers at submission, no later
\* operation other than a retake changes the persisted isComplete or score,
\* and a retake resets them to false and 0.
C24_SubmissionStands ==
  [][ /\ SubmitApplied =>
           /\ taking'.persisted.isComplete
           /\ taking'.persisted.score = calculateQuizScore(taking'.persisted)
      /\ taking.submitted =>
           \/ /\ taking'.persisted.isComplete = taking.persisted.isComplete
              /\ taking'.persisted.score = taking.persisted.score
           \/ SubmitApplied
           \/ /\ RetakeApplied
              /\ ~taking'.persisted.isComplete
              /\ taking'.persisted.score = 0 ]_vars


\* C24 for the submission and the retake themselves: submitQuiz persists
\* isComplete = true with the score of the answers it submits, and a retake
\* persists isComplete = false, score 0 and no answer.
C24_SubmitAndRetakeWrite ==
  [][ /\ SubmitApplied =>
           /\ taking'.persisted.isComplete
           /\ taking'.persisted.score = calculateQuizScore(taking'.persisted)
           /\ taking'.submitted
      /\ RetakeApplied =>
           /\ ~taking'.persisted.isComplete
           /\ taking'.persisted.score = 0
           /\ \A k \in 1..Len(taking'.persisted.questionsList) :
                IsUnanswered(taking'.persisted.questionsList[k]) ]_vars

\* C24 for every step but the writes of the question screen: once the quiz
\* is submitted, only a write changes the persisted isComplete or score, and
\* other than a submission or a retake only a save whose quiz was built
\* from a screen state that predates the submission.
C24_OnlyStaleSavesUndo ==
  [][ (/\ taking.submitted
       /\ \/ taking'.persisted.isComplete /= taking.persisted.isComplete
          \/ taking'.persisted.score /= taking.persisted.score)
      => /\ taking.writes /= <<>>
         /\ taking'.persisted = Head(taking.writes).quiz
         /\ \/ Head(taking.writes).kind \in {"submit", "retake"}
            \/ /\ Head(taking.writes).kind \in {"answer", "navigation", "bookmark"}
               /\ ~Head(taking.writes).quiz.isComplete ]_vars

\* a submitted quiz whose persisted isComplete a later save has put back
C24_SubmissionUndone ==
  /\ taking.submitted
  /\ ~taking.persisted.isComplete
  /\ taking.persisted.score = 0


(***************************************************************************)
(* Properties of the answers after their saves                             *)
(***************************************************************************)
\* the question screen is open, the user has only answered and moved
\* between questions on it, no save was rejected and none is in flight
AnswersSaved ==
  /\ taking.screen = "question"
  /\ taking.onlyAnswers
  /\ ~SaveInFlight

\* C29: for any sequence of answer changes whose saves complete in any
\* order, once all saves have completed the persisted and the on-screen
\* currentAnswer of every question equal the user's most recent answer.
C29_MostRecentAnswerKept ==
  AnswersSaved =>
    /\ CurrentAnswers(taking.persisted) = taking.latest
    /\ CurrentAnswers(taking.local) = taking.latest

\* C29 where every save has completed before the next answer change or move.
C29_KeptWithoutOverlap ==
  (AnswersSaved /\ ~taking.overlapped) =>
    /\ CurrentAnswers(taking.persisted) = taking.latest
    /\ CurrentAnswers(taking.local) = taking.latest

\* the screen and the document agree once all saves have completed
C29_ScreenShowsPersisted ==
  AnswersSaved => CurrentAnswers(taking.persisted) = CurrentAnswers(taking.local)

\* an answer was given, all saves have completed one at a time, and the
\* screen and the document show it
C29_AnswerKept ==
  /\ AnswersSaved
  /\ ~taking.overlapped
  /\ \E k \in 1..Len(taking.latest) : taking.latest[k] \in NewAnswers
  /\ CurrentAnswers(taking.persisted) = taking.latest

\* all saves have completed and an earlier answer has replaced the most
\* recent one in the document and on the screen
C29_EarlierAnswerWins ==
  /\ AnswersSaved
  /\ CurrentAnswers(taking.persisted) /= taking.latest
  /\ CurrentAnswers(taking.local) /= taking.latest


(***************************************************************************)
(* The create screen: handleCreate, from the guard to the navigation       *)
(***************************************************************************)
\* the handleCreate invocations on all devices
MaxCreates == 3

\* the index of an empty list's last position
NoIndex == -1

\* the form as handleCreate finds it
Form(fileCount, numberOfItems, typeCount) ==
  [fileCount |-> fileCount, numberOfItems |-> numberOfItems,
   typeCount |-> typeCount]

Forms == {Form(f, n, t) : f \in {0, 1}, n \in {0, 2}, t \in {0, 1}}

\* prepareSubmissionData: the fields it reports
SubmissionErrors(selectionType, form) ==
  (IF form.fileCount = 0 THEN {"files"} ELSE {})
    \cup (IF form.numberOfItems <= 0 THEN {"numberOfItems"} ELSE {})
    \cup (IF selectionType = "quiz" /\ form.typeCount = 0
          THEN {"quizQuestionTypes"} ELSE {})

\* the study set that generation returns to a device, and its kind
CreateTasks == {SaveTask("saveQuiz", "T", 2), SaveTask("saveFlashcard", "T", 2)}

SelectionType(task) == IF task.op = "saveQuiz" THEN "quiz" ELSE "flashcard"

\* what processNotesWithFiles gives back
GenerationOutcomes == {"data", "unsuccessful", "throws"}

Device(guard, loading, at, calls, ignored, generations, saves, exit, index,
       shown) ==
  [isSaving |-> guard, loading |-> loading, pc |-> at, calls |-> calls,
   ignored |-> ignored, generations |-> generations, saves |-> saves,
   exit |-> exit, index |-> index, shown |-> shown]

IdleDevice == Device(FALSE, FALSE, "idle", 0, 0, 0, 0, "none", NoIndex, NoEntity)

CreateCalls == create[1].calls + create[2].calls

\* the test that opens handleCreate
SaveInProgress(device) == device.isSaving

\* the state of a device when handleCreate is left
Left(device, exit) ==
  [device EXCEPT !.isSaving = FALSE, !.loading = FALSE, !.pc = "idle",
                 !.exit = exit]

\* a handleCreate that starts whether or not a save is in progress
HandleCreate_Unguarded(c) ==
  /\ CreateCalls < MaxCreates
  /\ \E form \in Forms :
       IF SubmissionErrors(SelectionType(clients[c].task), form) /= {}
       THEN /\ create' = [create EXCEPT
                 ![c] = [Left(@, "validation") EXCEPT !.calls = @ + 1]]
            /\ UNCHANGED clients
       ELSE /\ create' = [create EXCEPT
                 ![c] = [@ EXCEPT !.isSaving = TRUE, !.loading = TRUE,
                                  !.pc = "generating", !.calls = @ + 1,
                                  !.generations = @ + 1]]
            /\ clients' = [clients EXCEPT
                 ![c] = IdleClient(clients[c].task, NoEntity)]
  /\ UNCHANGED <<pipeVars, userDoc, docVersion, clock, ticks, initialDoc,
                 eval, extract, study, taking>>

\* handleCreate up to its first await: the guard, the validation and the
\* call of processNotesWithFiles
HandleCreate(c) ==
  /\ CreateCalls < MaxCreates
  /\ IF SaveInProgress(create[c])
     THEN /\ create' = [create EXCEPT
               ![c] = [@ EXCEPT !.calls = @ + 1, !.ignored = @ + 1]]
          /\ UNCHANGED clients
     ELSE \E form \in Forms :
            IF SubmissionErrors(SelectionType(clients[c].task), form) /= {}
            THEN /\ create' = [create EXCEPT
                      ![c] = [Left(@, "validation") EXCEPT !.calls = @ + 1]]
                 /\ UNCHANGED clients
            ELSE /\ create' = [create EXCEPT
                      ![c] = [@ EXCEPT !.isSaving = TRUE, !.loading = TRUE,
                                       !.pc = "generating", !.calls = @ + 1,
                                       !.generations = @ + 1]]
                 /\ clients' = [clients EXCEPT
                      ![c] = IdleClient(clients[c].task, NoEntity)]
  /\ UNCHANGED <<pipeVars, userDoc, docVersion, clock, ticks, initialDoc,
                 eval, extract, study, taking>>

CreateStep(c, next) ==
  /\ create' = [create EXCEPT ![c] = next]
  /\ UNCHANGED <<pipeVars, storeVars, eval, extract, study, taking>>

\* processNotesWithFiles returns or throws; with data the save is called
GenerationReturns(c) ==
  /\ create[c].pc = "generating"
  /\ \E returned \in GenerationOutcomes :
       IF returned = "data"
       THEN CreateStep(c, [create[c] EXCEPT !.pc = "saving", !.saves = @ + 1])
       ELSE CreateStep(c, Left(create[c], returned))

\* the transaction of saveQuizToFirestore or saveFlashcardToFirestore
SaveToFirestore(c) ==
  /\ create[c].pc = "saving"
  /\ \/ TxGet(c)
     \/ TxCommit(c)
     \/ TxFail(c)

\* the save has thrown: the inner catch alerts
SaveThrows(c) ==
  /\ create[c].pc = "saving"
  /\ clients[c].pc = "failed"
  /\ CreateStep(c, Left(create[c], "saveError"))

\* the save has returned and the getDoc after it is answered: the last
\* position of the list of that kind is the index navigated to
NavigateToLast(c) ==
  /\ create[c].pc = "saving"
  /\ clients[c].pc = "done"
  /\ IF userDoc.exists
     THEN LET list == ListOfKind(clients[c].task.op, userDoc)
          IN  CreateStep(c, [Left(create[c], "navigated") EXCEPT
                !.index = Len(list) - 1,
                !.shown = IF list = <<>> THEN NoEntity ELSE list[Len(list)]])
     ELSE CreateStep(c, Left(create[c], "history"))

InitCreate ==
  /\ request = [auth |-> FALSE, data |-> RequestData(<<>>, "", 0, <<>>),
                processorId |-> FALSE]
  /\ InitPipelineLocals
  /\ eval = NoEval
  /\ extract = NoExtract
  /\ study = NoStudy
  /\ taking = NoTaking
  /\ userDoc \in {DocOf(<<>>, <<>>), DocOf(<<>>, <<NewQuiz(QuizData("T", 2), 0)>>)}
  /\ initialDoc = userDoc
  /\ docVersion = 0
  /\ clock = 0
  /\ ticks = 0
  /\ clients \in {cs \in [Clients -> {IdleClient(t, NoEntity) : t \in CreateTasks}] :
                    cs[1].task.op = "saveQuiz"}
  /\ create = [c \in Clients |-> IdleDevice]

NextCreate ==
  \/ \E c \in Clients : HandleCreate(c)
  \/ \E c \in Clients : GenerationReturns(c)
  \/ \E c \in Clients : SaveToFirestore(c)
  \/ \E c \in Clients : SaveThrows(c)
  \/ \E c \in Clients : NavigateToLast(c)
  \/ Tick

SpecCreate == InitCreate /\ [][NextCreate]_vars

(***************************************************************************)
(* Properties of the guard of handleCreate                                 *)
(***************************************************************************)
\* C26: while one handleCreate invocation holds the in-progress guard, every
\* further invocation returns without calling the generation function or a
\* save, and on every path out of handleCreate the guard is cleared, so
\* that a later create is not blocked.
C26_GuardedCreate ==
  /\ [](\A c \in Clients :
          create[c].pc = "idle" => ~create[c].isSaving /\ ~create[c].loading)
  /\ [][\A c \in Clients :
          (create[c].isSaving /\ create'[c].calls = create[c].calls + 1) =>
            /\ create'[c].generations = create[c].generations
            /\ create'[c].saves = create[c].saves
            /\ create'[c].pc = create[c].pc
            /\ create'[c].isSaving
            /\ clients'[c] = clients[c]]_vars

\* an invocation was ignored while another held the guard, that one has
\* left with the set saved, and the guard is clear
C26_Witness ==
  \E c \in Clients :
    /\ create[c].ignored > 0
    /\ create[c].exit = "navigated"
    /\ create[c].pc = "idle"
    /\ ~create[c].isSaving

\* every way out of handleCreate has been taken with the guard cleared
C26_WitnessValidation ==
  \E c \in Clients : create[c].exit = "validation" /\ ~create[c].isSaving
C26_WitnessUnsuccessful ==
  \E c \in Clients : create[c].exit = "unsuccessful" /\ ~create[c].isSaving
C26_WitnessThrows ==
  \E c \in Clients : create[c].exit = "throws" /\ ~create[c].isSaving
C26_WitnessSaveError ==
  \E c \in Clients : create[c].exit = "saveError" /\ ~create[c].isSaving

\* a create has started after an earlier one was left
C26_WitnessLaterCreate ==
  \E c \in Clients :
    create[c].exit /= "none" /\ create[c].pc = "generating"

(***************************************************************************)
(* Properties of the index handleCreate navigates to                       *)
(***************************************************************************)
\* C28: after handleCreate has saved a study set, the index it navigates to
\* is the position of the entity that the save returned, also when the save
\* was suppressed as a duplicate and when another save completed in between.
C28_NavigatesToSaved ==
  \A c \in Clients :
    (create[c].exit = "navigated" /\ create[c].pc = "idle") =>
      create[c].shown = clients[c].saved

\* C28 for a device whose save is the only one that has been committed.
C28_SavedWhenAlone ==
  \A c \in Clients :
    (/\ create[c].exit = "navigated"
     /\ create[c].pc = "idle"
     /\ \A other \in Clients \ {c} : create[other].saves = 0) =>
      create[c].shown = clients[c].saved

\* a device has navigated to a set that its save did not return
C28_NavigatedToAnother ==
  \E c \in Clients :
    /\ create[c].exit = "navigated"
    /\ create[c].pc = "idle"
    /\ create[c].shown /= clients[c].saved

====
